---- MODULE Spec2Model ----
(***************************************************************************)
(* State-machine model of the RegisterKaro sales-agent backend             *)
(* (src/register_karo_agent): the users collection and its access layer    *)
(* (database/models.py, class UserProfile), the in-memory fallback stores  *)
(* and the handlers of app.py (websocket_endpoint, process_message,        *)
(* upload_document, check_payment_endpoint).                               *)
(*                                                                         *)
(* Conventions.                                                            *)
(*  - A Python dict / MongoDB document is a TLA+ record whose DOMAIN is    *)
(*    the set of keys present; "k in d" is Has(d, k); dict.update and $set *)
(*    are Upd.                                                             *)
(*  - The users collection is the sequence `users`; a document's _id is    *)
(*    its index; delete_one leaves the tombstone Tomb (ObjectIds are       *)
(*    never reused).                                                       *)
(*  - find_one without a sort returns one of the matching documents; the   *)
(*    order is the query plan's, so the model lets it return any of them.  *)
(*  - datetime.now() is the logical clock `clock`; it advances when a      *)
(*    timestamp is stored.  last_active is written by most operations and  *)
(*    read by none, and is not part of the modelled documents.             *)
(***************************************************************************)
EXTENDS Integers, Sequences, FiniteSets, TLC

\* ------------------------------------------------------------------ bounds
MaxUsers == 3
MaxClock == 4
MaxIdentityClock == 3
MaxPay == 3
NumSessions == 2
NumDevices == 1
NumCookies == 1
NumProcs == 3

SessionIds == 1..NumSessions
DeviceIds == 1..NumDevices
CookieIds == 1..NumCookies

VARIABLES
    DB_AVAILABLE,      \* app.py:39-47, fixed when the module is imported
    users,             \* the MongoDB collection "users"
    chat_histories,    \* app.py:113  session_id -> list of messages
    document_status,   \* app.py:115  session_id -> dict
    payment_status,    \* app.py:116  session_id -> dict
    thread_ids,        \* app.py:117  session_id -> thread id
    conn,              \* active_connections + the locals of each websocket_endpoint coroutine
    uploads,           \* upload_document requests awaiting verify_document_with_vision
    clock,             \* datetime.now()
    nextPay,           \* payment ids issued so far (uuid4 / ObjectId are fresh)
    sent,              \* session_id -> the payment links sent in payment_link frames
    unresolved,        \* session_id -> the links sent since the session's last completed payment
    procs,             \* concurrent callers of the UserProfile methods, one database call per step
    last               \* the handler step executed last and what it observed

vars == <<DB_AVAILABLE, users, chat_histories, document_status, payment_status,
          thread_ids, conn, uploads, clock, nextPay, sent, unresolved, procs, last>>

\* ------------------------------------------------------------------ dicts
Has(d, k) == k \in DOMAIN d

\* dict.update(e) / {"$set": e}
Upd(d, e) == [k \in DOMAIN d \cup DOMAIN e |-> IF k \in DOMAIN e THEN e[k] ELSE d[k]]

\* d.get(k, default)
Get(d, k, default) == IF k \in DOMAIN d THEN d[k] ELSE default

\* {k: v for k, v in d.items() if k in ks}
Restrict(d, ks) == [k \in DOMAIN d \cap ks |-> d[k]]

EmptyDict == [k \in {} |-> 0]

\* dict[k] = v on a dict of dicts
Put(m, k, v) == [x \in DOMAIN m \cup {k} |-> IF x = k THEN v ELSE m[x]]

Tomb == [tomb |-> TRUE]
NoUser == 0

Live(U) == {i \in 1..Len(U) : ~Has(U[i], "tomb")}

\* ------------------------------------------------------------------ phones
\* A phone string is abstracted to the number it spells, whether it carries
\* formatting characters (spaces, dashes) and whether it has at least 10
\* characters once those are removed.
CleanPhone(p) == [num |-> p.num, formatted |-> FALSE, long |-> p.long]

\* ------------------------------------------------------------------ UserProfile.find_user
\* The clauses of the $or query a document satisfies.
MatchesDevice(doc, ident) ==
    Has(ident, "device_id") /\ Has(doc, "device_id") /\ doc.device_id = ident.device_id

MatchesCookie(doc, ident) ==
    Has(ident, "cookie_id") /\ Has(doc, "cookie_id") /\ doc.cookie_id = ident.cookie_id

MatchesPhone(doc, ident) ==
    /\ Has(ident, "phone")
    /\ CleanPhone(ident.phone).long
    /\ Has(doc, "phone")
    /\ doc.phone = CleanPhone(ident.phone)

MatchesSession(doc, ident) ==
    Has(ident, "session_id") /\ ident.session_id \in doc.sessions

find_userWithoutDevice(U, ident) ==
    {i \in Live(U) : \/ MatchesCookie(U[i], ident)
                     \/ MatchesPhone(U[i], ident)
                     \/ MatchesSession(U[i], ident)}

\* The documents collection.find_one(query) may return; {} when the query
\* has no clause or nothing matches.
find_user(U, ident) ==
    {i \in Live(U) : \/ MatchesDevice(U[i], ident)
                     \/ MatchesCookie(U[i], ident)
                     \/ MatchesPhone(U[i], ident)
                     \/ MatchesSession(U[i], ident)}

\* The values find_user can return: a matching _id, or NoUser (None).
Found(U, ident) == IF find_user(U, ident) = {} THEN {NoUser} ELSE find_user(U, ident)

get_by_session(U, s) == Found(U, [session_id |-> s])

\* ------------------------------------------------------------------ UserProfile (database/models.py)
\* Every method is the set of outcomes one call can have, one per document
\* its find_one can return.  An outcome is [U: the collection afterwards,
\* id: the _id the method worked on (NoUser when none), raised: whether the
\* call raised].  A call that would insert into a full collection has no
\* outcome (the bound MaxUsers).

Outcome(U, id, raised) == [U |-> U, id |-> id, raised |-> raised]

\* models.py:116-141, the document create_or_update_user inserts
NewUserDoc(ident, data, now) ==
    LET base == Upd([created_at |-> now, sessions |-> {}], data)
        dev == IF Has(ident, "device_id") THEN Upd(base, [device_id |-> ident.device_id]) ELSE base
        pho == IF Has(ident, "phone") THEN Upd(dev, [phone |-> CleanPhone(ident.phone)]) ELSE dev
        coo == IF Has(ident, "cookie_id") THEN Upd(pho, [cookie_id |-> ident.cookie_id]) ELSE pho
        ses == IF Has(ident, "session_id") THEN Upd(coo, [sessions |-> {ident.session_id}]) ELSE coo
    IN  Upd(ses, [conversation |-> <<>>, documents |-> <<>>])

UpdateExistingSetsSessions(U, id, ident, data) ==
    LET set == Upd(U[id], Restrict(data, DOMAIN data \ {"_id"}))
        doc == IF Has(ident, "session_id") /\ ~Has(data, "sessions")
               THEN Upd(set, [sessions |-> set.sessions \cup {ident.session_id}])
               ELSE set
    IN  Outcome([U EXCEPT ![id] = doc], id, FALSE)

\* models.py:89-113, the update of an existing user.  MongoDB rejects an
\* update whose $set and $addToSet both name "sessions" (a path conflict):
\* update_one raises and nothing is written.
UpdateExisting(U, id, ident, data) ==
    IF Has(data, "sessions") /\ Has(ident, "session_id")
    THEN Outcome(U, id, TRUE)
    ELSE LET set == Upd(U[id], Restrict(data, DOMAIN data \ {"_id"}))
             doc == IF Has(ident, "session_id")
                    THEN Upd(set, [sessions |-> set.sessions \cup {ident.session_id}])
                    ELSE set
         IN  Outcome([U EXCEPT ![id] = doc], id, FALSE)

create_or_update_user(U, ident, data, now) ==
    {UpdateExisting(U, id, ident, data) : id \in find_user(U, ident)}
    \cup {Outcome(Append(U, NewUserDoc(ident, data, now)), Len(U) + 1, FALSE) :
            x \in {y \in {1} : find_user(U, ident) = {} /\ Len(U) < MaxUsers}}

\* models.py:346-360
create_or_update(U, s, data, now) == create_or_update_user(U, [session_id |-> s], data, now)

Message(role, now) == [role |-> role, timestamp |-> now]

\* models.py:186-199, the temporary user add_message_to_conversation inserts
TemporaryUserDoc(s, msg, now) ==
    [created_at |-> now, sessions |-> {s}, conversation |-> <<msg>>,
     documents |-> <<>>, is_temporary |-> TRUE]

add_message_to_conversation(U, s, msg, now) ==
    {Outcome([U EXCEPT ![id] = Upd(@, [conversation |-> Append(@.conversation, msg)])], id, FALSE) :
        id \in find_user(U, [session_id |-> s])}
    \cup {Outcome(Append(U, TemporaryUserDoc(s, msg, now)), Len(U) + 1, FALSE) :
            x \in {y \in {1} : find_user(U, [session_id |-> s]) = {} /\ Len(U) < MaxUsers}}

\* models.py:201-260.  The user document gets a reference to the stored
\* document and the field document_status; the record in the separate
\* "documents" collection is written and never read back by the program.
\* docid is the fresh id used when document_info carries none.
update_document_info(U, s, document_info, docid, now) ==
    IF find_user(U, [session_id |-> s]) = {}
    THEN {Outcome(U, NoUser, FALSE)}
    ELSE {LET ref == [document_id |-> Get(document_info, "document_id", docid),
                      uploaded_at |-> now]
          IN  Outcome([U EXCEPT ![id] = Upd(@, [documents |-> Append(@.documents, ref),
                                               document_status |-> Get(document_info, "status", "pending")])],
                      id, FALSE) :
            id \in find_user(U, [session_id |-> s])}

\* models.py:287-294
PaymentRecord(payment_info, payid) ==
    [payment_id |-> Get(payment_info, "payment_id", payid),
     amount |-> Get(payment_info, "amount", 0),
     currency |-> Get(payment_info, "currency", "INR"),
     status |-> Get(payment_info, "status", "pending")]

\* models.py:262-313.  payid is the fresh id used when payment_info carries
\* none; the dict stored as current_payment is payment_info with that id.
update_payment_info(U, s, payment_info, payid) ==
    IF find_user(U, [session_id |-> s]) = {}
    THEN {Outcome(U, NoUser, FALSE)}
    ELSE {LET info == Upd([payment_id |-> payid], payment_info)
          IN  Outcome([U EXCEPT ![id] =
                          Upd(@, [payment_history |-> Append(Get(@, "payment_history", <<>>),
                                                             PaymentRecord(info, payid)),
                                  current_payment |-> info,
                                  payment_status |-> Get(info, "status", "pending")])],
                      id, FALSE) :
            id \in find_user(U, [session_id |-> s])}

\* models.py:373-388, on the document find_user returned
DocHasCompletedPayment(doc) ==
    \/ Has(doc, "payment_status") /\ doc.payment_status = "completed"
    \/ /\ Has(doc, "payment_history")
       /\ \E i \in 1..Len(doc.payment_history) :
             doc.payment_history[i].status \in {"completed", "captured"}
    \/ /\ Has(doc, "current_payment")
       /\ Get(doc.current_payment, "status", "none") \in {"completed", "captured"}

\* models.py:362-388: the values has_completed_payment can return
has_completed_payment(U, ident) ==
    IF find_user(U, ident) = {} THEN {FALSE}
    ELSE {DocHasCompletedPayment(U[id]) : id \in find_user(U, ident)}


\* ------------------------------------------------------------------ merge
\* list.sort(key=timestamp) is stable: insertion from the left, each message
\* placed after the messages whose timestamp is not greater.
RECURSIVE InsertByTimestamp(_, _)
InsertByTimestamp(sorted, m) ==
    IF sorted = <<>> THEN <<m>>
    ELSE IF Get(sorted[Len(sorted)], "timestamp", 0) <= Get(m, "timestamp", 0)
         THEN Append(sorted, m)
         ELSE Append(InsertByTimestamp(SubSeq(sorted, 1, Len(sorted) - 1), m),
                     sorted[Len(sorted)])

RECURSIVE SortByTimestamp(_)
SortByTimestamp(seq) ==
    IF seq = <<>> THEN <<>>
    ELSE InsertByTimestamp(SortByTimestamp(SubSeq(seq, 1, Len(seq) - 1)), seq[Len(seq)])

\* models.py:478-482
MergedConversation(from_user, to_user) ==
    SortByTimestamp(Get(from_user, "conversation", <<>>) \o Get(to_user, "conversation", <<>>))

\* models.py:484-494: the target's list, then the source's entries whose id
\* (field key) the list does not hold yet
RECURSIVE MergedById(_, _, _)
MergedById(merged, extra, key) ==
    IF extra = <<>> THEN merged
    ELSE MergedById(IF \E i \in 1..Len(merged) : merged[i][key] = extra[1][key]
                    THEN merged ELSE Append(merged, extra[1]),
                    Tail(extra), key)

\* models.py:475-516, the fields merge_users sets on the target
MergedFields(from_user, to_user) ==
    [sessions |-> Get(from_user, "sessions", {}) \cup Get(to_user, "sessions", {}),
     conversation |-> MergedConversation(from_user, to_user),
     documents |-> MergedById(Get(to_user, "documents", <<>>),
                              Get(from_user, "documents", <<>>), "document_id"),
     payment_history |-> MergedById(Get(to_user, "payment_history", <<>>),
                                    Get(from_user, "payment_history", <<>>), "payment_id"),
     document_status |-> Get(from_user, "document_status", Get(to_user, "document_status", "pending")),
     payment_status |-> Get(from_user, "payment_status", Get(to_user, "payment_status", "pending"))]

\* models.py:500-523
MergedCurrentPayment(from_user, to_user) ==
    IF Has(from_user, "current_payment") THEN [current_payment |-> from_user.current_payment]
    ELSE IF Has(to_user, "current_payment") THEN [current_payment |-> to_user.current_payment]
    ELSE EmptyDict

merge_usersKeepsSource(U, from_user_id, to_user_id) ==
    IF from_user_id \notin Live(U) \/ to_user_id \notin Live(U)
    THEN Outcome(U, NoUser, FALSE)
    ELSE Outcome([U EXCEPT ![to_user_id] =
                     Upd(Upd(@, MergedFields(U[from_user_id], U[to_user_id])),
                         MergedCurrentPayment(U[from_user_id], U[to_user_id]))],
                 to_user_id, FALSE)

\* models.py:455-529, run without interruption: both reads, the two updates
\* of the target and the delete of the source.  id is to_user_id when the
\* merge was carried out, NoUser when it returned False at line 473.
merge_users(U, from_user_id, to_user_id) ==
    IF from_user_id \notin Live(U) \/ to_user_id \notin Live(U)
    THEN Outcome(U, NoUser, FALSE)
    ELSE LET from_user == U[from_user_id]
             to_user == U[to_user_id]
             updated == [U EXCEPT ![to_user_id] =
                            Upd(Upd(@, MergedFields(from_user, to_user)),
                                MergedCurrentPayment(from_user, to_user))]
         IN  Outcome([updated EXCEPT ![from_user_id] = Tomb], to_user_id, FALSE)

\* models.py:402-416: the documents the three find_one calls can yield
\* (device id first, then phone, then cookie id)
ExistingByIdentifier(U, identifier) ==
    LET byDevice == {i \in Live(U) : MatchesDevice(U[i], identifier)}
        byPhone == {i \in Live(U) : /\ Has(identifier, "phone") /\ Has(U[i], "phone")
                                    /\ U[i].phone = CleanPhone(identifier.phone)}
        byCookie == {i \in Live(U) : MatchesCookie(U[i], identifier)}
    IN  IF byDevice # {} THEN byDevice
        ELSE IF byPhone # {} THEN byPhone
        ELSE IF byCookie # {} THEN byCookie
        ELSE {NoUser}

\* models.py:427-439 (the identifiers of the model carry no email or name)
IdentifierUpdate(identifier) ==
    Upd(Restrict(identifier, {"cookie_id"}),
        IF Has(identifier, "phone") THEN [phone |-> CleanPhone(identifier.phone)] ELSE EmptyDict)

set_user_identifierKeepsCurrent(U, s, identifier, now) ==
    UNION {UNION {
        IF existing # NoUser /\ current # NoUser /\ existing # current
        THEN {merge_users(U, existing, current)}
        ELSE IF current # NoUser
        THEN {Outcome([U EXCEPT ![current] = Upd(@, IdentifierUpdate(identifier))], current, FALSE)}
        ELSE create_or_update_user(U, [session_id |-> s], identifier, now)
        : current \in Found(U, [session_id |-> s])}
        : existing \in ExistingByIdentifier(U, identifier)}

\* models.py:390-453
set_user_identifier(U, s, identifier, now) ==
    UNION {UNION {
        IF existing # NoUser /\ current # NoUser /\ existing # current
        THEN {merge_users(U, current, existing)}
        ELSE IF current # NoUser
        THEN {Outcome([U EXCEPT ![current] = Upd(@, IdentifierUpdate(identifier))], current, FALSE)}
        ELSE create_or_update_user(U, [session_id |-> s], identifier, now)
        : current \in Found(U, [session_id |-> s])}
        : existing \in ExistingByIdentifier(U, identifier)}


\* ------------------------------------------------------------------ handler contexts
\* A handler runs as a chain of steps over a context: the stores (U the
\* users collection, ch/ds/ps/ti the in-memory dicts, sent, np the payment
\* ids issued), the coroutine's locals loc, widget (the handler has sent a
\* show_document_upload frame), frames (the show_document_upload and
\* payment_link frames it has sent), texts (the texts of the message frames
\* it has sent), notice (it has sent the message "I'm having trouble
\* processing your request. Please try again.") and raised (an exception
\* is propagating; later steps are skipped).  A step maps a
\* context to the set of contexts it can produce.
Ctx(loc) ==
    [U |-> users, ch |-> chat_histories, ds |-> document_status, ps |-> payment_status,
     ti |-> thread_ids, sent |-> sent, open |-> unresolved, np |-> nextPay, loc |-> loc,
     widget |-> FALSE, frames |-> 0, texts |-> {}, notice |-> FALSE, raised |-> FALSE]

Bind(S, F(_)) == UNION {IF c.raised THEN {c} ELSE F(c) : c \in S}

\* The contexts a UserProfile call leaves: the collection replaced, raised set.
OnDb(c, outcomes) == {[c EXCEPT !.U = o.U, !.raised = o.raised] : o \in outcomes}

Commit(c) ==
    /\ users' = c.U
    /\ chat_histories' = c.ch
    /\ document_status' = c.ds
    /\ payment_status' = c.ps
    /\ thread_ids' = c.ti
    /\ sent' = c.sent
    /\ unresolved' = c.open
    /\ nextPay' = c.np
    /\ clock' = IF <<c.U, c.ch, c.ds>> # <<users, chat_histories, document_status>>
                THEN clock + 1 ELSE clock

\* ------------------------------------------------------------------ stage selection (process_message)
\* app.py:380-396: document.pending and payment.pending as process_message
\* reads them, from the user document or from the in-memory dicts
DocPendingOf(d) == Has(d, "document") /\ Get(d.document, "pending", FALSE)
PaymentPendingOf(d) == Has(d, "payment") /\ Get(d.payment, "pending", FALSE)

ReadPending(c, s, id) ==
    IF DB_AVAILABLE
    THEN IF id = NoUser THEN [doc |-> FALSE, pay |-> FALSE]
         ELSE [doc |-> DocPendingOf(c.U[id]), pay |-> PaymentPendingOf(c.U[id])]
    ELSE [doc |-> Has(c.ds, s) /\ Get(c.ds[s], "pending", FALSE),
          pay |-> Has(c.ps, s) /\ Get(c.ps[s], "pending", FALSE)]

\* A cookie id is a text of the client's choosing; SessionCookie(q) is the
\* cookie whose text is the id of session q, which the server sent to the
\* client in session_info (app.py:1103-1109), and KeyOfCookie(k) is the
\* session id that cookie k spells (none of SessionIds for other cookies).
SessionCookie(q) == NumCookies + NumSessions + q
KeyOfCookie(k) == k - NumCookies - NumSessions

\* app.py:318-350: the values check_existing_payment can return.  The
\* in-memory dict is keyed by session ids, so the lookup by cookie id finds
\* an entry only for a cookie that spells a session id.
check_existing_payment(c, s, ids) ==
    IF DB_AVAILABLE
    THEN has_completed_payment(c.U, Upd([session_id |-> s], ids))
    ELSE IF Has(ids, "cookie_id") /\ Has(c.ps, KeyOfCookie(ids.cookie_id))
         THEN {Get(c.ps[KeyOfCookie(ids.cookie_id)], "completed", FALSE)}
         ELSE {Has(c.ps, s) /\ Get(c.ps[s], "completed", FALSE)}

\* app.py:894-925: the agent handle_inactivity picks; get_by_session is read
\* as in process_message, check_existing_payment is not called
handle_inactivity_agent(c, s) ==
    {IF ReadPending(c, s, id).doc THEN "document_verification"
     ELSE IF ReadPending(c, s, id).pay THEN "payment"
     ELSE "sales" : id \in (IF DB_AVAILABLE THEN get_by_session(c.U, s) ELSE {NoUser})}

\* app.py:398-436: the agent process_message dispatches to
SelectAgentSwapped(doc_pending, payment_pending, payment_already_completed) ==
    IF payment_pending
    THEN (IF payment_already_completed THEN "sales" ELSE "payment")
    ELSE IF doc_pending THEN "document_verification" ELSE "sales"

SelectAgent(doc_pending, payment_pending, payment_already_completed) ==
    IF doc_pending THEN "document_verification"
    ELSE IF payment_pending
         THEN (IF payment_already_completed THEN "sales" ELSE "payment")
         ELSE "sales"


StoreMessageAtHead(c, s, role, now) ==
    IF DB_AVAILABLE
    THEN OnDb(c, add_message_to_conversation(c.U, s, Message(role, now), now))
    ELSE {[c EXCEPT !.ch = Put(c.ch, s, <<[role |-> role]>> \o Get(c.ch, s, <<>>))]}

\* ------------------------------------------------------------------ stores behind "if DB_AVAILABLE ... else ..."
\* app.py:364-372, 423-426, 617-621: one message appended to the history
StoreMessage(c, s, role, now) ==
    IF DB_AVAILABLE
    THEN OnDb(c, add_message_to_conversation(c.U, s, Message(role, now), now))
    ELSE {[c EXCEPT !.ch = Put(c.ch, s, Append(Get(c.ch, s, <<>>), [role |-> role]))]}

\* app.py:683-686, 779-782, 1459-1462: a new payment dict recorded.  In
\* memory it replaces the session's dict; update_payment_info draws a fresh
\* id when the dict carries none.
StoreNewPayment(c, s, info) ==
    IF DB_AVAILABLE
    THEN OnDb([c EXCEPT !.np = IF Has(info, "payment_id") THEN @ ELSE @ + 1],
              update_payment_info(c.U, s, info, c.np + 1))
    ELSE {[c EXCEPT !.ps = Put(c.ps, s, info)]}

\* app.py:410-416, 732-736: fields of the current payment updated
StorePaymentUpdate(c, s, upd) ==
    LET r == IF Get(upd, "completed", FALSE) THEN [c EXCEPT !.open = Put(c.open, s, {})] ELSE c
    IN  IF DB_AVAILABLE
        THEN OnDb([r EXCEPT !.np = IF Has(upd, "payment_id") THEN @ ELSE @ + 1],
                  update_payment_info(r.U, s, upd, r.np + 1))
        ELSE {IF Has(r.ps, s) THEN [r EXCEPT !.ps = Put(r.ps, s, Upd(r.ps[s], upd))] ELSE r}

\* app.py:292-299: client_state of the websocket registered for s.  The
\* state leaves CONNECTED inside receive_text only, which then raises
\* WebSocketDisconnect, and the handler unregisters the websocket without
\* awaiting (app.py:1272-1275): a websocket that is registered is CONNECTED.
Connected(s) == s \in DOMAIN conn

\* app.py:292-299: a message frame.  A text is abstracted to where its
\* words come from: "fixed" (a literal of the source, with amounts and
\* links filled in), "reply" (the agent's final output), "model" (the
\* analysis the vision model wrote) or "exception" (str(e) of an exception).
send_bot_message(c, s, text) ==
    IF Connected(s) THEN [c EXCEPT !.texts = @ \cup {text}] ELSE c

\* app.py:310-316: the frame {"type": "show_document_upload"}
request_document_upload(c) == [c EXCEPT !.widget = TRUE, !.frames = @ + 1]

\* app.py:646-649, 754-757: document.pending set by an upload request
StoreDocumentPending(c, s, now) ==
    IF DB_AVAILABLE
    THEN OnDb(c, update_document_info(c.U, s, [pending |-> TRUE], <<now, 0>>, now))
    ELSE {[c EXCEPT !.ds = Put(c.ds, s, [pending |-> TRUE])]}

\* ------------------------------------------------------------------ payment gateway (tools/payment_tools.py)
\* A company type is a text, kept as the sequence of its words; <<>> is the
\* text that is empty or not supplied.  Lower is str.lower() on the words
\* of the model, and a keyword is contained in a text when it is one of its
\* lowered words.
Words == {"LLP", "llp", "OPC", "One Person", "Private Limited"}

Lower(w) ==
    IF w \in {"LLP", "llp"} THEN "llp"
    ELSE IF w = "OPC" THEN "opc"
    ELSE IF w = "One Person" THEN "one person"
    ELSE "private limited"

Contains(text, keyword) == \E k \in 1..Len(text) : Lower(text[k]) = keyword

\* the company types of the funnel's tool calls: none given, or LLP
CompanyTypes == {<<>>, <<"LLP">>}

\* payment_tools.py:36-51
AmountFor(company_type) ==
    IF company_type # <<>>
    THEN IF Contains(company_type, "llp") THEN 6000
         ELSE IF Contains(company_type, "opc") \/ Contains(company_type, "one person") THEN 4500
         ELSE 5000
    ELSE 5000

\* payment_tools.py:19-139: a link with a fresh payment id; the link is
\* determined by the id.  n is the number of ids issued before.
generate_razorpay_link(company_type, n) ==
    [success |-> TRUE, payment_id |-> n + 1, payment_link |-> n + 1,
     amount |-> AmountFor(company_type), currency |-> "INR"]

\* payment_tools.py:141-228: the answers check_payment_status can give
PaymentResults ==
    {[success |-> TRUE, status |-> "created", payment_completed |-> FALSE],
     [success |-> TRUE, status |-> "authorized", payment_completed |-> TRUE],
     [success |-> TRUE, status |-> "captured", payment_completed |-> TRUE],
     [success |-> FALSE]}

\* ------------------------------------------------------------------ process_message, up to the await of Runner.run
\* app.py:398-430, the branch taken when a pending payment is found to be
\* completed already
AlreadyPaid(c, s, now) ==
    Bind(StorePaymentUpdate(c, s, [pending |-> FALSE, completed |-> TRUE, status |-> "completed"]),
         LAMBDA d : StoreMessage(send_bot_message(d, s, "fixed"), s, "assistant", now))

\* app.py:567-589: the thread id is stored the first time
StoreThreadId(c, s, now) ==
    IF DB_AVAILABLE
    THEN UNION {IF id # NoUser /\ Has(c.U[id], "thread_id") THEN {c}
                ELSE OnDb(c, create_or_update(c.U, s, [thread_id |-> s], now))
                : id \in get_by_session(c.U, s)}
    ELSE {[c EXCEPT !.ti = Put(c.ti, s, s)]}

\* app.py:374-436: the locals process_message computes before it runs the agent
StageLocals(c, s) ==
    {[c EXCEPT !.loc = Upd(@, [doc_pending |-> ReadPending(c, s, id).doc,
                               payment_pending |-> ReadPending(c, s, id).pay,
                               payment_already_completed |-> done,
                               agent |-> SelectAgent(ReadPending(c, s, id).doc,
                                                     ReadPending(c, s, id).pay, done)])]
        : id \in (IF DB_AVAILABLE THEN get_by_session(c.U, s) ELSE {NoUser}),
          done \in check_existing_payment(c, s, Restrict(c.loc, {"cookie_id", "device_id"}))}

\* app.py:352-611
process_message_start(c, s, now) ==
    Bind(Bind(Bind(StoreMessage(c, s, "user", now),
                   LAMBDA d : StageLocals(d, s)),
              LAMBDA d : IF ~d.loc.doc_pending /\ d.loc.payment_pending
                            /\ d.loc.payment_already_completed
                         THEN AlreadyPaid(d, s, now) ELSE {d}),
         LAMBDA d : {[e EXCEPT !.loc = Upd(@, [pc |-> "runner"])] : e \in StoreThreadId(d, s, now)})


\* ------------------------------------------------------------------ process_message, after Runner.run returned
\* A reply of the agent: the tool call it reports ("none" when it reports
\* none) with its arguments, and what the keyword fallback finds in the text:
\* tool, company_type, has_payment_id (of verify_payment_status),
\* result (of check_payment_status), text, link (the URL in the text; 0 is a
\* URL the gateway never issued).
SendPaymentLink(c, s, link) ==
    [c EXCEPT !.sent = Put(c.sent, s, Get(c.sent, s, {}) \cup {link}),
              !.open = Put(c.open, s, Get(c.open, s, {}) \cup {link}),
              !.frames = @ + 1]

\* app.py:654-692
OnCreatePaymentLink(c, s, company_type) ==
    LET payment_data == generate_razorpay_link(company_type, c.np)
        payment_data_to_store ==
            [pending |-> TRUE, payment_id |-> payment_data.payment_id,
             link |-> payment_data.payment_link, amount |-> payment_data.amount,
             currency |-> payment_data.currency]
    IN  {SendPaymentLink(d, s, payment_data.payment_link) :
            d \in StoreNewPayment([c EXCEPT !.np = payment_data.payment_id], s, payment_data_to_store)}

\* app.py:698-711: whether a payment id is at hand, from the arguments or
\* from the stored payment
HasPaymentId(c, s, has_payment_id) ==
    \/ has_payment_id
    \/ IF DB_AVAILABLE
       THEN \E id \in find_user(c.U, [session_id |-> s]) :
               Has(c.U[id], "payment") /\ Has(c.U[id].payment, "payment_id")
       ELSE Has(c.ps, s) /\ Has(c.ps[s], "payment_id")

\* app.py:719-730
PaymentUpdate(result) ==
    Upd([status |-> result.status],
        IF result.payment_completed THEN [pending |-> FALSE, completed |-> TRUE] ELSE EmptyDict)

\* app.py:694-742
OnVerifyPaymentStatus(c, s, has_payment_id, result) ==
    IF HasPaymentId(c, s, has_payment_id) /\ result.success
    THEN StorePaymentUpdate(c, s, PaymentUpdate(result))
    ELSE {c}

\* app.py:631-742
ToolCalls(c, s, reply, now) ==
    IF reply.tool = "upload_document"
    THEN StoreDocumentPending(request_document_upload(c), s, now)
    ELSE IF reply.tool = "create_payment_link" THEN OnCreatePaymentLink(c, s, reply.company_type)
    ELSE IF reply.tool = "verify_payment_status"
         THEN OnVerifyPaymentStatus(c, s, reply.has_payment_id, reply.result)
    ELSE {c}

\* app.py:744-784
KeywordFallback(c, s, reply, now) ==
    IF reply.tool # "upload_document" /\ reply.text \in {"document", "both"}
    THEN StoreDocumentPending(request_document_upload(c), s, now)
    ELSE IF reply.text \in {"payment_link", "both"}
         THEN StoreNewPayment(SendPaymentLink(c, s, reply.link), s,
                              [pending |-> TRUE, link |-> reply.link])
         ELSE {c}

\* the locals that outlive process_message
LoopLocals(loc) == Upd(Restrict(loc, {"cookie_id", "device_id"}), [pc |-> "recv"])

\* app.py:786-853: what the regular expressions find in the user's message
\* is stored.  The text of a message is abstracted to the contact fields
\* the patterns extract from it (a phone number: digits only, ten or more);
\* the name and the email address are stored the same way.  In memory the
\* fields go to user_info (app.py:114), which only this code writes and
\* which is not part of the model.
ExtractContact(c, s, now) ==
    LET text == Get(c.loc, "text", EmptyDict)
    IN  IF Has(text, "phone") /\ DB_AVAILABLE
        THEN OnDb(c, create_or_update(c.U, s, [phone |-> text.phone], now))
        ELSE {c}

\* app.py:868-871: an exception raised inside the try block of
\* process_message is caught and reported to the client
OnException(c) == [c EXCEPT !.raised = FALSE, !.notice = TRUE, !.texts = @ \cup {"fixed"}]

\* app.py:855-867: the summary is due when the stored conversation holds a
\* multiple of 5 messages.  generate_context_summary (app.py:123-211) only
\* reads; UserProfile (models.py:14-530) defines no update_context_summary,
\* so the call at app.py:862 raises AttributeError.  In memory mode nothing
\* is done.
UpdateContextSummary(c, s) ==
    IF DB_AVAILABLE
    THEN {IF id # NoUser /\ Len(c.U[id].conversation) % 5 = 0
          THEN [c EXCEPT !.raised = TRUE] ELSE c : id \in get_by_session(c.U, s)}
    ELSE {c}

\* app.py:613-871
process_message_reply(c, s, reply, now) ==
    {[e EXCEPT !.loc = LoopLocals(@)] :
        e \in {IF d.raised THEN OnException(d) ELSE d :
                  d \in Bind(Bind(Bind(Bind(Bind(StoreMessage(c, s, "assistant", now),
                                                 LAMBDA d : {send_bot_message(d, s, "reply")}),
                                            LAMBDA d : ToolCalls(d, s, reply, now)),
                                       LAMBDA d : KeywordFallback(d, s, reply, now)),
                                  LAMBDA d : ExtractContact(d, s, now)),
                             LAMBDA d : UpdateContextSummary(d, s))}}

\* ------------------------------------------------------------------ handle_inactivity
\* app.py:1076-1079: the fallback follow-up
OnFollowUpException(c) == [c EXCEPT !.raised = FALSE, !.texts = @ \cup {"fixed"}]

\* app.py:873-1047: handle_inactivity returns at once when the user has no
\* conversation; else it selects an agent (app.py:894-925, which shapes the
\* prompt only), stores a thread id when the session has none
\* (app.py:998-1019) and awaits Runner.run
handle_inactivity_start(c, s, now) ==
    LET waiting == {IF e.raised THEN OnFollowUpException(e)
                    ELSE [e EXCEPT !.loc = Upd(@, [pc |-> "follow_up"])] :
                       e \in StoreThreadId(c, s, now)}
    IN  IF DB_AVAILABLE
        THEN UNION {IF id = NoUser \/ c.U[id].conversation = <<>> THEN {c} ELSE waiting :
                       id \in Found(c.U, Upd([session_id |-> s],
                                             Restrict(c.loc, {"cookie_id", "device_id"})))}
        ELSE IF Get(c.ch, s, <<>>) = <<>> THEN {c} ELSE waiting

StoreFollowUpInNewRecord(c, s, now) ==
    IF DB_AVAILABLE /\ Len(c.U) < MaxUsers
    THEN OnDb(c, {Outcome(Append(c.U, TemporaryUserDoc(
                                         s, Upd(Message("assistant", now),
                                                [metadata |-> "inactivity_follow_up"]), now)),
                          Len(c.U) + 1, FALSE)})
    ELSE {[c EXCEPT !.ch = Put(c.ch, s, Append(Get(c.ch, s, <<>>),
                                              [role |-> "assistant",
                                               metadata |-> "inactivity_follow_up"]))]}

\* app.py:1055-1070: the follow-up is stored with its metadata
StoreFollowUp(c, s, now) ==
    IF DB_AVAILABLE
    THEN OnDb(c, add_message_to_conversation(
                    c.U, s, Upd(Message("assistant", now), [metadata |-> "inactivity_follow_up"]), now))
    ELSE {[c EXCEPT !.ch = Put(c.ch, s, Append(Get(c.ch, s, <<>>),
                                              [role |-> "assistant",
                                               metadata |-> "inactivity_follow_up"]))]}

\* app.py:1049-1079: Runner.run returned the follow-up message
handle_inactivity_reply(c, s, now) ==
    {[e EXCEPT !.loc = LoopLocals(@)] :
        e \in {IF d.raised THEN OnFollowUpException(d) ELSE d :
                  d \in Bind(StoreFollowUp(c, s, now),
                             LAMBDA d : {send_bot_message(d, s, "reply")})}}


\* ------------------------------------------------------------------ websocket_endpoint, one envelope
\* An envelope is a dict with the optional keys cookie_id, device_id,
\* previous_session_id, client_info (a dict with the optional key phone) and
\* type.
Drop(m, k) == [x \in DOMAIN m \ {k} |-> m[x]]

\* app.py:1144-1151: cookie_{uuid4()}, a cookie id no client has sent and
\* no other connection was given
GeneratedCookie(s) == NumCookies + s

\* app.py:1132-1150
DeviceIdentifiers(loc, s) ==
    Upd([session_id |-> s], Restrict(loc, {"device_id", "cookie_id"}))

\* app.py:1116-1189.  Both branches of "if existing_user" end in
\* create_or_update_user(identifiers, timestamps only).
EnvIdentifiers(c, s, env, now) ==
    LET withCookie == IF Has(env, "cookie_id") THEN Upd(c.loc, [cookie_id |-> env.cookie_id]) ELSE c.loc
        withDevice == Upd(withCookie, [device_id |-> env.device_id])
    IN  IF ~Has(env, "device_id") THEN {[c EXCEPT !.loc = withCookie]}
        ELSE IF ~DB_AVAILABLE THEN {[c EXCEPT !.loc = withDevice]}
        ELSE UNION {OnDb([c EXCEPT !.loc = loc],
                         create_or_update_user(c.U, DeviceIdentifiers(loc, s), EmptyDict, now))
                    : loc \in {IF Has(withDevice, "cookie_id") THEN withDevice
                               ELSE Upd(withDevice, [cookie_id |-> GeneratedCookie(s)])}}

\* app.py:1191-1211
EnvPreviousSession(c, s, env, now) ==
    IF Has(env, "previous_session_id") /\ DB_AVAILABLE
       /\ find_user(c.U, [session_id |-> env.previous_session_id]) # {}
    THEN OnDb(c, create_or_update_user(c.U, [session_id |-> env.previous_session_id],
                                       [sessions |-> {s}], now))
    ELSE {c}

\* app.py:1213-1249
EnvClientInfo(c, s, env, now) ==
    IF Has(env, "client_info") /\ DB_AVAILABLE
    THEN LET contact == Restrict(env.client_info, {"phone"})
         IN  OnDb(c, create_or_update_user(
                        c.U, Upd(Upd([session_id |-> s], Restrict(c.loc, {"cookie_id"})), contact),
                        contact, now))
    ELSE {c}

\* app.py:1251-1271.  text is the argument message of process_message, kept
\* only when the envelope's text holds contact fields.
EnvType(c, s, env, now) ==
    LET withText == [c EXCEPT !.loc = Upd(@, Restrict(env, {"text"}))]
    IN  IF ~Has(env, "type") THEN {[c EXCEPT !.raised = TRUE]}
        ELSE IF env.type = "message"
        THEN IF DB_AVAILABLE
             THEN Bind(OnDb(withText, create_or_update_user(
                                         c.U, Upd([session_id |-> s], Restrict(c.loc, {"cookie_id"})),
                                         EmptyDict, now)),
                       LAMBDA d : process_message_start(d, s, now))
             ELSE process_message_start(withText, s, now)
        ELSE IF env.type = "inactive" THEN handle_inactivity_start(c, s, now)
        ELSE {c}

\* app.py:1112-1271
HandleEnvelope(c, s, env, now) ==
    Bind(Bind(Bind(EnvIdentifiers(c, s, env, now),
                   LAMBDA d : EnvPreviousSession(d, s, env, now)),
              LAMBDA d : EnvClientInfo(d, s, env, now)),
         LAMBDA d : EnvType(d, s, env, now))


\* ------------------------------------------------------------------ upload_document (POST /upload-document)
\* The request runs in two steps, before and after the await of
\* verify_document_with_vision (the branch taken when OPENAI_API_KEY is set).
\* In memory mode the session id is used as given.

\* app.py:1291-1398: the user is identified (a temporary one is created when
\* none is found) and the document data is stored
upload_document_start(c, s, ids, now) ==
    IF DB_AVAILABLE
    THEN Bind(IF find_user(c.U, Upd([session_id |-> s], ids)) = {}
              THEN OnDb(c, create_or_update_user(c.U, [session_id |-> s], [is_temporary |-> TRUE], now))
              ELSE {c},
              LAMBDA d : OnDb(d, update_document_info(
                                    d.U, s, [document_id |-> <<now, 1>>, pending |-> FALSE],
                                    <<now, 1>>, now)))
    ELSE {[c EXCEPT !.ds = Put(c.ds, s, [document_id |-> <<now, 1>>, pending |-> FALSE])]}

\* tools/document_tools.py:18-228: what verify_document_with_vision returns.
\* analysis is the vision model's text ("model"), one of the two fixed
\* sentences of lines 211-222 ("fixed") or the sentence of line 226, which
\* quotes str(e) of the exception caught ("exception").
VerificationResults ==
    {[is_valid |-> TRUE, analysis |-> "model"]}
    \cup {[is_valid |-> FALSE, analysis |-> a] : a \in {"model", "fixed", "exception"}}

\* app.py:1411-1423
StoreVerification(c, s, is_valid, now) ==
    IF DB_AVAILABLE
    THEN OnDb(c, update_document_info(c.U, s, [verified |-> is_valid], <<now, 2>>, now))
    ELSE {IF Has(c.ds, s) THEN [c EXCEPT !.ds = Put(c.ds, s, Upd(c.ds[s], [verified |-> is_valid]))]
          ELSE [c EXCEPT !.raised = TRUE]}

\* app.py:1435-1478: the payment dict stored here carries no payment_id
OnDocumentValid(c, s, now) ==
    LET payment_data == generate_razorpay_link(<<>>, c.np)
        payment_data_to_store ==
            [pending |-> TRUE, link |-> payment_data.payment_link,
             amount |-> payment_data.amount, currency |-> payment_data.currency]
    IN  Bind(StoreNewPayment([send_bot_message(c, s, "fixed") EXCEPT !.np = payment_data.payment_id],
                             s, payment_data_to_store),
             LAMBDA d : {SendPaymentLink(e, s, payment_data.payment_link) :
                            e \in StoreMessage(send_bot_message(d, s, "fixed"), s, "assistant", now)})

\* app.py:1479-1573.  The rejection message quotes the analysis; the
\* follow-up advice (a fixed text) is sent for some analyses of the model.
OnDocumentInvalid(c, s, analysis, now) ==
    Bind(IF DB_AVAILABLE
         THEN OnDb(c, update_document_info(c.U, s, [pending |-> TRUE], <<now, 3>>, now))
         ELSE {[c EXCEPT !.ds = Put(c.ds, s, Upd(c.ds[s], [pending |-> TRUE]))]},
         LAMBDA d : {IF Connected(s) THEN request_document_upload(send_bot_message(e, s, analysis))
                     ELSE e
                     : e \in StoreMessage(d, s, "assistant", now)})

\* app.py:1681-1683: an exception raised after the document was stored is
\* caught and answered with {"success": False, "error": str(e)}
UploadCaught(c) == [c EXCEPT !.raised = FALSE]

upload_document_finishUnguarded(c, s, result, now) ==
    {IF e.raised THEN UploadCaught(e) ELSE e :
        e \in Bind(StoreVerification(c, s, result.is_valid, now),
                   LAMBDA d : IF result.is_valid THEN OnDocumentValid(d, s, now)
                              ELSE OnDocumentInvalid(d, s, result.analysis, now))}

\* app.py:1400-1683
upload_document_finish(c, s, result, now) ==
    {IF e.raised THEN UploadCaught(e) ELSE e :
        e \in Bind(StoreVerification(c, s, result.is_valid, now),
                   LAMBDA d : IF s \notin DOMAIN conn THEN {d}
                              ELSE IF result.is_valid THEN OnDocumentValid(d, s, now)
                              ELSE OnDocumentInvalid(d, s, result.analysis, now))}

\* app.py:1670-1679: the document dicts upload_document reads back, and the
\* is_valid of its response
DocumentsOf(c, s) ==
    IF DB_AVAILABLE
    THEN {c.U[id].document : id \in {i \in find_user(c.U, [session_id |-> s]) : Has(c.U[i], "document")}}
    ELSE {c.ds[t] : t \in DOMAIN c.ds \cap {s}}

UploadResponse(c, s) ==
    IF DocumentsOf(c, s) = {} THEN {FALSE}
    ELSE {Get(d, "verified", FALSE) : d \in DocumentsOf(c, s)}

\* ------------------------------------------------------------------ check_payment_endpoint (GET /check-payment)
\* models.py:315-344
mark_case_outcome(U, s, is_win) ==
    IF find_user(U, [session_id |-> s]) = {}
    THEN {Outcome(U, NoUser, FALSE)}
    ELSE {Outcome([U EXCEPT ![id] = Upd(@, [case_outcome |-> [is_win |-> is_win]])], id, FALSE)
            : id \in find_user(U, [session_id |-> s])}

\* app.py:1813-1838
EndpointPaymentUpdate(payment_id, result) ==
    Upd([status |-> result.status],
        IF result.payment_completed
        THEN [pending |-> FALSE, completed |-> TRUE, payment_id |-> payment_id] ELSE EmptyDict)

\* app.py:1849-1864: in memory the message is appended to
\* chat_histories[session_id], a KeyError when the session has no history
EndpointNotify(c, s, now) ==
    IF ~DB_AVAILABLE /\ ~Has(c.ch, s) THEN {[c EXCEPT !.raised = TRUE]}
    ELSE {send_bot_message(e, s, "fixed") : e \in StoreMessage(c, s, "assistant", now)}

\* app.py:1867-1869: an exception is caught and answered with
\* {"success": False, "error": str(e)}
EndpointCaught(c) == [c EXCEPT !.raised = FALSE]

\* app.py:1772-1869
check_payment_endpoint(c, s, ids, payment_id, result, now) ==
    IF DB_AVAILABLE /\ find_user(c.U, Upd([session_id |-> s], ids)) = {} THEN {c}
    ELSE IF ~result.success THEN {c}
    ELSE {IF e.raised THEN EndpointCaught(e) ELSE e :
            e \in Bind(Bind(IF DB_AVAILABLE /\ result.payment_completed
                            THEN OnDb(c, mark_case_outcome(c.U, s, TRUE)) ELSE {c},
                            LAMBDA d : StorePaymentUpdate(d, s, EndpointPaymentUpdate(payment_id, result))),
                       LAMBDA d : IF result.payment_completed /\ s \in DOMAIN conn
                                  THEN EndpointNotify(d, s, now) ELSE {d})}


\* ------------------------------------------------------------------ the server: connections and requests
\* uuid4 session ids are fresh: no store and no request mentions them yet
FreshSession(s) ==
    /\ s \notin DOMAIN conn
    /\ s \notin DOMAIN chat_histories \cup DOMAIN document_status \cup DOMAIN payment_status
                \cup DOMAIN thread_ids \cup DOMAIN sent
    /\ \A i \in Live(users) : s \notin users[i].sessions
    /\ \A u \in uploads : u.s # s

\* app.py:1087-1110: the connection is accepted and registered
WsConnect(s) ==
    /\ FreshSession(s)
    /\ conn' = Put(conn, s, [pc |-> "recv"])
    /\ last' = [op |-> "connect", s |-> s]
    /\ UNCHANGED <<DB_AVAILABLE, users, chat_histories, document_status, payment_status,
                   thread_ids, uploads, clock, nextPay, sent, unresolved, procs>>

\* app.py:1272-1275: WebSocketDisconnect raised by receive_text
WsDisconnect(s) ==
    /\ s \in DOMAIN conn
    /\ conn[s].pc = "recv"
    /\ conn' = Drop(conn, s)
    /\ last' = [op |-> "disconnect", s |-> s]
    /\ UNCHANGED <<DB_AVAILABLE, users, chat_histories, document_status, payment_status,
                   thread_ids, uploads, clock, nextPay, sent, unresolved, procs>>

WsEnvelopeNotAwaited(s, env) ==
    /\ s \in DOMAIN conn
    /\ clock < MaxClock
    /\ \E c \in HandleEnvelope(Ctx(conn[s]), s, env, clock + 1) :
          /\ c.np <= MaxPay
          /\ Commit(c)
          /\ conn' = IF c.raised THEN Drop(conn, s) ELSE Put(conn, s, c.loc)
          /\ last' = [op |-> "envelope", s |-> s, device |-> Has(env, "device_id"),
                      raised |-> c.raised]
    /\ UNCHANGED <<DB_AVAILABLE, uploads, procs>>

\* app.py:1111-1279: one envelope received and handled, up to the next
\* receive_text or to the await of Runner.run; an exception ends the loop
\* and unregisters the connection
WsEnvelope(s, env) ==
    /\ s \in DOMAIN conn
    /\ conn[s].pc = "recv"
    /\ clock < MaxClock
    /\ \E c \in HandleEnvelope(Ctx(conn[s]), s, env, clock + 1) :
          /\ c.np <= MaxPay
          /\ Commit(c)
          /\ conn' = IF c.raised THEN Drop(conn, s) ELSE Put(conn, s, c.loc)
          /\ last' = [op |-> "envelope", s |-> s, device |-> Has(env, "device_id"),
                      raised |-> c.raised]
    /\ UNCHANGED <<DB_AVAILABLE, uploads, procs>>

\* the URLs a reply's text can carry
ReplyLinks(s, tool) ==
    {0} \cup Get(sent, s, {}) \cup (IF tool = "create_payment_link" THEN {nextPay + 1} ELSE {})

ReplyTexts(s, tool) ==
    {[text |-> t, link |-> 0] : t \in {"plain", "document"}}
    \cup {[text |-> t, link |-> l] : t \in {"payment_link", "both"}, l \in ReplyLinks(s, tool)}

\* what Runner.run can return (agents_new: final_output and extra_info)
Replies(s) ==
    {Upd(t, [tool |-> k]) : t \in ReplyTexts(s, "none"), k \in {"none", "upload_document"}}
    \cup {Upd(t, [tool |-> "create_payment_link", company_type |-> ct]) :
            t \in ReplyTexts(s, "create_payment_link"), ct \in CompanyTypes}
    \cup {Upd(t, [tool |-> "verify_payment_status", has_payment_id |-> h, result |-> r]) :
            t \in ReplyTexts(s, "none"), h \in BOOLEAN, r \in PaymentResults}

\* app.py:613-867: Runner.run returned
AgentReply(s, reply) ==
    /\ s \in DOMAIN conn
    /\ conn[s].pc = "runner"
    /\ clock < MaxClock
    /\ \E c \in process_message_reply(Ctx(conn[s]), s, reply, clock + 1) :
          /\ c.np <= MaxPay
          /\ Commit(c)
          /\ conn' = Put(conn, s, c.loc)
          /\ last' = [op |-> "reply", s |-> s, tool |-> reply.tool, widget |-> c.widget,
                      notice |-> c.notice]
    /\ UNCHANGED <<DB_AVAILABLE, uploads, procs>>

\* app.py:868-871: Runner.run raised; process_message reports the trouble
\* and returns
AgentFails(s) ==
    /\ s \in DOMAIN conn
    /\ conn[s].pc = "runner"
    /\ conn' = Put(conn, s, OnException(Ctx(LoopLocals(conn[s]))).loc)
    /\ last' = [op |-> "failed", s |-> s, notice |-> OnException(Ctx(LoopLocals(conn[s]))).notice]
    /\ UNCHANGED <<DB_AVAILABLE, users, chat_histories, document_status, payment_status,
                   thread_ids, uploads, clock, nextPay, sent, unresolved, procs>>

\* app.py:1049-1073: Runner.run returned to handle_inactivity
FollowUpReply(s) ==
    /\ s \in DOMAIN conn
    /\ conn[s].pc = "follow_up"
    /\ clock < MaxClock
    /\ \E c \in handle_inactivity_reply(Ctx(conn[s]), s, clock + 1) :
          /\ Commit(c)
          /\ conn' = Put(conn, s, c.loc)
          /\ last' = [op |-> "follow_up", s |-> s]
    /\ UNCHANGED <<DB_AVAILABLE, uploads, procs>>

\* app.py:1075-1079: Runner.run raised in handle_inactivity
FollowUpFails(s) ==
    /\ s \in DOMAIN conn
    /\ conn[s].pc = "follow_up"
    /\ conn' = Put(conn, s, OnFollowUpException(Ctx(LoopLocals(conn[s]))).loc)
    /\ last' = [op |-> "follow_up_failed", s |-> s]
    /\ UNCHANGED <<DB_AVAILABLE, users, chat_histories, document_status, payment_status,
                   thread_ids, uploads, clock, nextPay, sent, unresolved, procs>>

\* app.py:1281-1398: POST /upload-document, up to the verification
UploadStart(s, ids) ==
    /\ clock < MaxClock
    /\ \E c \in upload_document_start(Ctx(EmptyDict), s, ids, clock + 1) :
          /\ Commit(c)
          /\ uploads' = uploads \cup {[s |-> s, document_id |-> <<clock + 1, 1>>]}
          /\ last' = [op |-> "upload", s |-> s]
    /\ UNCHANGED <<DB_AVAILABLE, conn, procs>>

\* app.py:1400-1683: the verification returned result
UploadFinish(u, result) ==
    /\ u \in uploads
    /\ clock < MaxClock
    /\ \E c \in upload_document_finish(Ctx(EmptyDict), u.s, result, clock + 1) :
          /\ c.np <= MaxPay
          /\ Commit(c)
          /\ uploads' = uploads \ {u}
          /\ last' = [op |-> "verified", s |-> u.s, is_valid |-> result.is_valid,
                      response |-> UploadResponse(c, u.s)]
    /\ UNCHANGED <<DB_AVAILABLE, conn, procs>>

\* app.py:1752-1869: GET /check-payment/{payment_id}
CheckPayment(s, payment_id, result) ==
    /\ clock < MaxClock
    /\ \E c \in check_payment_endpoint(Ctx(EmptyDict), s, EmptyDict, payment_id, result, clock + 1) :
          /\ c.np <= MaxPay
          /\ Commit(c)
          /\ last' = [op |-> "check", s |-> s]
    /\ UNCHANGED <<DB_AVAILABLE, conn, uploads, procs>>

\* ------------------------------------------------------------------ the funnel: messages, uploads and payments
Init ==
    /\ DB_AVAILABLE \in BOOLEAN
    /\ users = <<>>
    /\ chat_histories = EmptyDict
    /\ document_status = EmptyDict
    /\ payment_status = EmptyDict
    /\ thread_ids = EmptyDict
    /\ conn = EmptyDict
    /\ uploads = {}
    /\ clock = 0
    /\ nextPay = 0
    /\ sent = EmptyDict
    /\ unresolved = EmptyDict
    /\ procs = EmptyDict
    /\ last = [op |-> "init"]

Next ==
    \/ \E s \in SessionIds : WsConnect(s)
    \/ \E s \in SessionIds : WsDisconnect(s)
    \/ \E s \in SessionIds : WsEnvelope(s, [type |-> "message"])
    \/ \E s \in SessionIds : \E reply \in Replies(s) : AgentReply(s, reply)
    \/ \E s \in SessionIds : AgentFails(s)
    \/ \E s \in SessionIds : UploadStart(s, EmptyDict)
    \/ \E u \in uploads : \E result \in VerificationResults : UploadFinish(u, result)
    \/ \E s \in SessionIds : \E payment_id \in 1..nextPay : \E result \in PaymentResults :
          CheckPayment(s, payment_id, result)

Spec == Init /\ [][Next]_vars


\* ------------------------------------------------------------------ properties of the funnel
\* The payment dicts current for session s: the in-memory dict, or
\* current_payment of the user documents holding the session.
CurrentPayments(s) ==
    IF DB_AVAILABLE
    THEN {users[i].current_payment : i \in {j \in find_user(users, [session_id |-> s]) :
                                              Has(users[j], "current_payment")}}
    ELSE {payment_status[t] : t \in DOMAIN payment_status \cap {s}}

HistoryLengths(s) ==
    {Len(Get(users[i], "payment_history", <<>>)) : i \in find_user(users, [session_id |-> s])}

\* C1: while process_message awaits the agent it selected, the agent is the
\* one the stage function gives for the triple (document pending, payment
\* pending, payment already completed) it read: document_verification when
\* the document is pending, whatever the payment flags; else payment when
\* the payment is pending and not completed already; else sales.  Two
\* messages being processed with the same triple have the same agent.
C1StageIsFunctionOfTriple ==
    \A s \in DOMAIN conn :
        conn[s].pc = "runner" =>
            /\ conn[s].doc_pending => conn[s].agent = "document_verification"
            /\ (~conn[s].doc_pending /\ conn[s].payment_pending
                    /\ ~conn[s].payment_already_completed) => conn[s].agent = "payment"
            /\ (~conn[s].doc_pending
                    /\ ~(conn[s].payment_pending /\ ~conn[s].payment_already_completed))
                  => conn[s].agent = "sales"
            /\ \A t \in DOMAIN conn :
                  (/\ conn[t].pc = "runner"
                   /\ conn[t].doc_pending = conn[s].doc_pending
                   /\ conn[t].payment_pending = conn[s].payment_pending
                   /\ conn[t].payment_already_completed = conn[s].payment_already_completed)
                  => conn[t].agent = conn[s].agent

\* a message is being processed with both the document and the payment
\* pending, and the document verification agent was selected
C1Witness ==
    \E s \in DOMAIN conn :
        /\ conn[s].pc = "runner"
        /\ conn[s].doc_pending
        /\ conn[s].payment_pending
        /\ conn[s].agent = "document_verification"

\* C2: a reply that reports the tool call create_payment_link for a session
\* whose current payment is pending creates no further payment record: the
\* payment history keeps its length and the current payment keeps its
\* payment id and its link.
C2PaymentIdempotent ==
    [][\A s \in SessionIds :
          (/\ last'.op = "reply"
           /\ last'.s = s
           /\ last'.tool = "create_payment_link"
           /\ \E p \in CurrentPayments(s) : Get(p, "pending", FALSE))
          => /\ HistoryLengths(s)' = HistoryLengths(s)
             /\ \A p \in CurrentPayments(s) :
                   Get(p, "pending", FALSE) =>
                       \E q \in CurrentPayments(s)' :
                           /\ Get(q, "payment_id", 0) = Get(p, "payment_id", 0)
                           /\ Get(q, "link", 0) = Get(p, "link", 0)]_vars

\* C3: no session has two payment links sent and unresolved, and no user
\* document has two pending records in its payment history.
C3AtMostOneOpenPayment ==
    /\ \A s \in DOMAIN unresolved : Cardinality(unresolved[s]) <= 1
    /\ \A i \in Live(users) :
          Cardinality({k \in 1..Len(Get(users[i], "payment_history", <<>>)) :
                          users[i].payment_history[k].status = "pending"}) <= 1


\* C12: when the analysis of an upload returns and no other upload of the
\* session is in flight, the in-memory document record shows the outcome of
\* the submission started last only: if the returning upload is that
\* submission, verified is its result and pending is set only when it was
\* found invalid; if it was superseded by a later submission, its completion
\* changes neither pending nor verified.
C12LatestSubmissionWins ==
    [][\A u \in uploads :
          (/\ u \notin uploads'
           /\ ~DB_AVAILABLE
           /\ \A w \in uploads' : w.s # u.s
           /\ Has(document_status, u.s)
           /\ Has(document_status[u.s], "document_id"))
          => LET before == document_status[u.s]
                 after == document_status'[u.s]
             IN  IF before.document_id = u.document_id
                 THEN /\ Get(after, "verified", ~last'.is_valid) = last'.is_valid
                      /\ Get(after, "pending", FALSE) => ~last'.is_valid
                 ELSE /\ Get(after, "verified", "none") = Get(before, "verified", "none")
                      /\ Get(after, "pending", FALSE) = Get(before, "pending", FALSE)]_vars


\* C13: right after a reply that reports the tool call upload_document, a
\* show_document_upload frame has been sent and the next message of the
\* session is handled by the document verification agent.
C13UploadRequestSetsStage ==
    \A s \in DOMAIN conn :
        (last.op = "reply" /\ last.s = s /\ last.tool = "upload_document")
        => /\ last.widget
           /\ \A c \in process_message_start(Ctx(conn[s]), s, clock + 1) :
                 c.loc.agent = "document_verification"


\* C14: right after the analysis of an upload returned is_valid = True for a
\* session with a websocket, the document the program reads for the session
\* is verified and not pending (and the response says so), the current
\* payment is pending with amount 5000 and currency INR, and its link has
\* been sent in a payment_link frame.
C14ValidDocumentOpensPayment ==
    \A s \in DOMAIN conn :
        (last.op = "verified" /\ last.s = s /\ last.is_valid)
        => /\ last.response = {TRUE}
           /\ DocumentsOf(Ctx(conn[s]), s) # {}
           /\ \A d \in DocumentsOf(Ctx(conn[s]), s) :
                 Get(d, "verified", FALSE) /\ ~Get(d, "pending", FALSE)
           /\ CurrentPayments(s) # {}
           /\ \A p \in CurrentPayments(s) :
                 /\ Get(p, "pending", FALSE)
                 /\ Get(p, "amount", 0) = 5000
                 /\ Get(p, "currency", "none") = "INR"
                 /\ Get(p, "link", 0) \in Get(sent, s, {})


\* C15: right after the analysis of an upload returned is_valid = False, the
\* document the program reads for the session is pending and a message of
\* the session would be handled by the document verification agent, with a
\* websocket bound to the session or without.
C15InvalidDocumentStaysPending ==
    \A s \in SessionIds :
        (last.op = "verified" /\ last.s = s /\ ~last.is_valid)
        => /\ DocumentsOf(Ctx(EmptyDict), s) # {}
           /\ \A d \in DocumentsOf(Ctx(EmptyDict), s) : Get(d, "pending", FALSE)
           /\ \A c \in process_message_start(Ctx([pc |-> "recv"]), s, clock + 1) :
                 c.loc.agent = "document_verification"


\* C17: when check_payment_status fails, neither the verify_payment_status
\* tool call of a reply nor GET /check-payment changes the payment stored
\* for the session (the in-memory dict; current_payment, payment_status and
\* payment_history of the user documents), and after the tool call the
\* client has been sent the try-again message.
C17FailedCheckLeavesPayment ==
    LET failed == [success |-> FALSE]
        Same(c) ==
            /\ c.ps = payment_status
            /\ \A i \in 1..Len(users) :
                  Restrict(c.U[i], {"payment_history", "current_payment", "payment_status"})
                     = Restrict(users[i], {"payment_history", "current_payment", "payment_status"})
    IN  /\ \A s \in DOMAIN conn :
              conn[s].pc = "runner" =>
                  \A h \in BOOLEAN :
                      \A c \in process_message_reply(
                                  Ctx(conn[s]), s,
                                  [text |-> "plain", link |-> 0, tool |-> "verify_payment_status",
                                   has_payment_id |-> h, result |-> failed], clock + 1) :
                          Same(c) /\ c.notice
        /\ \A s \in SessionIds : \A payment_id \in 1..nextPay :
              \A c \in check_payment_endpoint(Ctx(EmptyDict), s, EmptyDict, payment_id, failed,
                                               clock + 1) :
                  Same(c)


\* C18: when a message arrives and Runner.run then raises, the client is
\* sent the try-again message, and the conversation, the document record,
\* the payment record and the contact fields stored are what they were
\* before the message arrived.
C18FailedDispatchLeavesState ==
    LET Stored(doc) == Restrict(doc, {"conversation", "documents", "document_status",
                                      "payment_history", "current_payment", "payment_status",
                                      "phone"})
    IN  \A s \in DOMAIN conn :
            conn[s].pc = "recv" =>
                \A c \in HandleEnvelope(Ctx(conn[s]), s, [type |-> "message"], clock + 1) :
                    ~c.raised =>
                        /\ OnException(c).notice
                        /\ c.ch = chat_histories
                        /\ c.ds = document_status
                        /\ c.ps = payment_status
                        /\ \A i \in 1..Len(c.U) :
                              IF i <= Len(users) THEN Stored(c.U[i]) = Stored(users[i])
                              ELSE c.U[i].conversation = <<>>


\* C20: a reply that reports a handled create_payment_link (upload_document)
\* tool call and whose text also holds the payment-link (document) keywords
\* is handled as the same reply without the keywords: the stored state is
\* that of the tool call alone, and one payment_link (show_document_upload)
\* frame is sent.
C20ToolCallAuthoritative ==
    \A s \in DOMAIN conn :
        (conn[s].pc = "runner" /\ clock < MaxClock) =>
            \A reply \in Replies(s) :
                <<reply.tool, reply.text>> \in {<<"create_payment_link", "payment_link">>,
                                                <<"upload_document", "document">>}
                => /\ process_message_reply(Ctx(conn[s]), s, reply, clock + 1)
                      = process_message_reply(Ctx(conn[s]), s,
                                              [reply EXCEPT !.text = "plain", !.link = 0],
                                              clock + 1)
                   /\ \A c \in process_message_reply(Ctx(conn[s]), s, reply, clock + 1) :
                         ~c.notice => c.frames = 1


\* C21: with the database, after a reply that reports the tool call
\* verify_payment_status with a payment id and whose check succeeded, the
\* current payment of the session's user has the status the gateway gave
\* and, when the gateway says the payment is completed, the user's case
\* outcome is a win.
C21VerifyMarksWin ==
    \A s \in DOMAIN conn :
        (DB_AVAILABLE /\ conn[s].pc = "runner") =>
            \A reply \in Replies(s) :
                (/\ reply.tool = "verify_payment_status"
                 /\ reply.text = "plain"
                 /\ reply.has_payment_id
                 /\ reply.result.success)
                => \A c \in process_message_reply(Ctx(conn[s]), s, reply, clock + 1) :
                      ~c.notice =>
                          \A i \in find_user(c.U, [session_id |-> s]) :
                              /\ Has(c.U[i], "current_payment")
                              /\ Get(c.U[i].current_payment, "status", "none") = reply.result.status
                              /\ reply.result.payment_completed
                                    => /\ Has(c.U[i], "case_outcome")
                                       /\ c.U[i].case_outcome.is_win


\* C22: the agent selected for a message is the one the in-memory backend
\* selects, whichever backend is in use: for a connected session, right
\* after a reply whose handling requested an upload (by tool call or by
\* keyword, document.pending written as true) the next message goes to the
\* document verification agent.
C22BackendsSelectSameStage ==
    \A s \in DOMAIN conn :
        (last.op = "reply" /\ last.s = s /\ last.widget /\ ~last.notice)
        => \A c \in process_message_start(Ctx(conn[s]), s, clock + 1) :
              c.loc.agent = "document_verification"


\* C23: when the document the program reads for a session is verified and
\* not pending and the session's current payment is pending (the payment
\* stage), handling an agent's reply leaves the document verified and not
\* pending: no reply moves the session back to document verification.
C23NoWayBackFromPayment ==
    [][\A s \in SessionIds :
          (/\ last'.op = "reply"
           /\ last'.s = s
           /\ \E d \in DocumentsOf(Ctx(EmptyDict), s) :
                 Get(d, "verified", FALSE) /\ ~Get(d, "pending", FALSE)
           /\ \E p \in CurrentPayments(s) : Get(p, "pending", FALSE))
          => /\ DocumentsOf(Ctx(EmptyDict), s)' # {}
             /\ \A d \in DocumentsOf(Ctx(EmptyDict), s)' :
                   Get(d, "verified", FALSE) /\ ~Get(d, "pending", FALSE)]_vars


\* C25: when a connection whose session id no store holds yet announces
\* the previous session id q of a stored conversation (the conversation of
\* a record holding q, or chat_histories[q]), handling the envelope leaves
\* that conversation as it was and the connection open, and a message then
\* sent on the connection is appended to that conversation and no record or
\* history is created for it.
C25ReconnectContinuesConversation ==
    \A s \in DOMAIN conn : \A q \in SessionIds \ {s} :
        (/\ conn[s].pc = "recv"
         /\ clock + 1 < MaxClock
         /\ Len(users) < MaxUsers
         /\ \A i \in Live(users) : s \notin users[i].sessions
         /\ s \notin DOMAIN chat_histories)
        => \A c \in HandleEnvelope(Ctx(conn[s]), s,
                                   [type |-> "identify", previous_session_id |-> q], clock + 1) :
              /\ \A u \in find_user(users, [session_id |-> q]) :
                    /\ ~c.raised
                    /\ c.U[u].conversation = users[u].conversation
                    /\ \A d \in HandleEnvelope(c, s, [type |-> "message"], clock + 2) :
                          /\ Len(d.U) = Len(users)
                          /\ d.U[u].conversation
                                = Append(users[u].conversation, Message("user", clock + 2))
              /\ (~DB_AVAILABLE /\ q \in DOMAIN chat_histories)
                    => /\ ~c.raised
                       /\ c.ch = chat_histories
                       /\ \A d \in HandleEnvelope(c, s, [type |-> "message"], clock + 2) :
                             /\ DOMAIN d.ch = DOMAIN chat_histories
                             /\ d.ch[q] = Append(chat_histories[q], [role |-> "user"])


\* a handler that has sent no frame and has not raised
Quiet(c) ==
    /\ c.texts = {}
    /\ c.frames = 0
    /\ ~c.widget
    /\ c.sent = sent
    /\ ~c.raised

C27NoInternalDetail ==
    /\ \A s \in DOMAIN conn :
          conn[s].pc = "runner" =>
              /\ OnException(Ctx(conn[s])).texts = {"fixed"}
              /\ \A reply \in Replies(s) :
                    \A c \in process_message_reply(Ctx(conn[s]), s, reply, clock + 1) :
                        c.texts \subseteq {"reply", "fixed"}
    /\ \A u \in uploads : \A result \in VerificationResults :
          result.analysis = "exception" =>
              \A c \in upload_document_finish(Ctx(EmptyDict), u.s, result, clock + 1) :
                  c.texts \subseteq {"fixed"}


\* ------------------------------------------------------------------ conversations: messages, follow-ups, uploads and payments
ConversationEnvelopes == {[type |-> "message"], [type |-> "inactive"]}

\* the replies of an agent that reports no tool call
PlainReplies(s) == {r \in Replies(s) : r.tool = "none"}

NextConversation ==
    \/ \E s \in SessionIds : WsConnect(s)
    \/ \E s \in SessionIds : WsDisconnect(s)
    \/ \E s \in SessionIds : \E env \in ConversationEnvelopes : WsEnvelope(s, env)
    \/ \E s \in SessionIds : \E reply \in PlainReplies(s) : AgentReply(s, reply)
    \/ \E s \in SessionIds : AgentFails(s)
    \/ \E s \in SessionIds : FollowUpReply(s)
    \/ \E s \in SessionIds : FollowUpFails(s)
    \/ \E s \in SessionIds : UploadStart(s, EmptyDict)
    \/ \E u \in uploads : \E result \in VerificationResults : UploadFinish(u, result)
    \/ \E s \in SessionIds : \E payment_id \in 1..nextPay : \E result \in PaymentResults :
          CheckPayment(s, payment_id, result)

SpecConversation == Init /\ [][NextConversation]_vars

IsPrefix(a, b) == Len(a) <= Len(b) /\ SubSeq(b, 1, Len(a)) = a

\* C28: a step of process_message, handle_inactivity, upload_document or
\* check_payment_endpoint deletes no conversation and leaves every stored
\* conversation (of a user record, of chat_histories) a prefix of what it
\* is afterwards, and the timestamps of a record's conversation never
\* decrease along it.
C28ConversationMonotonic ==
    [][/\ \A i \in Live(users) :
             /\ i \in Live(users')
             /\ IsPrefix(users[i].conversation, users'[i].conversation)
             /\ \A k \in 1..Len(users'[i].conversation) : \A l \in k..Len(users'[i].conversation) :
                   users'[i].conversation[k].timestamp <= users'[i].conversation[l].timestamp
       /\ \A s \in DOMAIN chat_histories :
             /\ s \in DOMAIN chat_histories'
             /\ IsPrefix(chat_histories[s], chat_histories'[s])]_vars

\* a follow-up was appended to a conversation that holds a message, its
\* reply and a message stored after them
C28Witness ==
    /\ last.op = "follow_up"
    /\ \/ \E i \in Live(users) : Len(users[i].conversation) >= 4
       \/ \E s \in DOMAIN chat_histories : Len(chat_histories[s]) >= 4


\* the conversations stored for session s: those of the records that hold
\* s in the database, its history in memory
SessionConversations(s) ==
    IF DB_AVAILABLE
    THEN {<<i, users[i].conversation>> : i \in {j \in Live(users) : s \in users[j].sessions}}
    ELSE {<<0, Get(chat_histories, s, <<>>)>>}

UserMessages(seq) == Cardinality({k \in 1..Len(seq) : seq[k].role = "user"})

FirstContext ==
    [U |-> <<>>, ch |-> EmptyDict, ds |-> EmptyDict, ps |-> EmptyDict, ti |-> EmptyDict,
     sent |-> EmptyDict, open |-> EmptyDict, np |-> 0, loc |-> [pc |-> "recv"],
     widget |-> FALSE, frames |-> 0, texts |-> {}, notice |-> FALSE, raised |-> FALSE]

\* session 1 has sent a message, got a plain reply, gone quiet and got a
\* follow-up: its conversation holds three messages
EarlierExchange ==
    LET plain == [text |-> "plain", link |-> 0, tool |-> "none"]
        a == HandleEnvelope(FirstContext, 1, [type |-> "message"], 0)
        b == UNION {process_message_reply(c, 1, plain, 0) : c \in a}
        f == UNION {HandleEnvelope(c, 1, [type |-> "inactive"], 0) : c \in b}
    IN  UNION {handle_inactivity_reply(c, 1, 0) : c \in f}

InitSummary ==
    /\ DB_AVAILABLE \in BOOLEAN
    /\ conn = Put(EmptyDict, 1, [pc |-> "recv"])
    /\ \E c \in EarlierExchange :
          /\ ~c.raised
          /\ users = c.U
          /\ chat_histories = c.ch
          /\ document_status = c.ds
          /\ payment_status = c.ps
          /\ thread_ids = c.ti
          /\ sent = c.sent
          /\ unresolved = c.open
          /\ nextPay = c.np
    /\ uploads = {}
    /\ clock = 0
    /\ procs = EmptyDict
    /\ last = [op |-> "init"]

SpecSummary == InitSummary /\ [][NextConversation]_vars

\* C30: when no handler of a session is running, a conversation of the
\* session that has reached 5 messages has a stored context summary.
C30SummaryEveryFiveMessages ==
    \A s \in DOMAIN conn : conn[s].pc = "recv" =>
       \A p \in SessionConversations(s) :
          Len(p[2]) >= 5 => DB_AVAILABLE /\ Has(users[p[1]], "context_summary")


\* ------------------------------------------------------------------ inactivity
\* the envelopes of a client that identifies itself by device id or phone,
\* writes messages and reports inactivity
InactivityEnvelopes ==
    {[type |-> "message"], [type |-> "inactive"], [type |-> "identify", device_id |-> 1],
     [type |-> "identify", client_info |-> [phone |-> [num |-> 1, formatted |-> TRUE, long |-> TRUE]]]}

NextInactivity ==
    \/ \E s \in SessionIds : WsConnect(s)
    \/ \E s \in SessionIds : WsDisconnect(s)
    \/ \E s \in SessionIds : \E env \in InactivityEnvelopes : WsEnvelope(s, env)
    \/ \E s \in SessionIds : \E reply \in PlainReplies(s) : AgentReply(s, reply)
    \/ \E s \in SessionIds : AgentFails(s)
    \/ \E s \in SessionIds : FollowUpReply(s)
    \/ \E s \in SessionIds : FollowUpFails(s)
    \/ \E s \in SessionIds : UploadStart(s, EmptyDict)
    \/ \E u \in uploads : \E result \in VerificationResults : UploadFinish(u, result)
    \/ \E s \in SessionIds : \E payment_id \in 1..nextPay : \E result \in PaymentResults :
          CheckPayment(s, payment_id, result)

SpecInactivity == Init /\ [][NextInactivity]_vars


\* what a handler has stored, apart from the conversations and thread ids
FunnelState(c) ==
    [U |-> [i \in 1..Len(c.U) |-> Restrict(c.U[i], DOMAIN c.U[i] \ {"conversation", "thread_id"})],
     ds |-> c.ds, ps |-> c.ps, sent |-> c.sent, open |-> c.open, np |-> c.np]

\* the messages a handler has appended to the conversations
Appended(c, d) ==
    IF DB_AVAILABLE
    THEN [i \in 1..Len(c.U) |-> SubSeq(d.U[i].conversation, Len(c.U[i].conversation) + 1,
                                       Len(d.U[i].conversation))]
    ELSE [s \in DOMAIN d.ch |-> SubSeq(d.ch[s], Len(Get(c.ch, s, <<>>)) + 1, Len(d.ch[s]))]

\* the user of session s has no conversation (app.py:884-892)
NoHistory(c, s) ==
    IF DB_AVAILABLE
    THEN \A id \in Found(c.U, Upd([session_id |-> s], Restrict(c.loc, {"cookie_id", "device_id"}))) :
            id = NoUser \/ c.U[id].conversation = <<>>
    ELSE Get(c.ch, s, <<>>) = <<>>

MaxWords == 2

CompanyTexts == UNION {[1..n -> Words] : n \in 0..MaxWords}

\* the replies that report the tool call create_payment_link, for every
\* company type
PaymentLinkReplies(s) ==
    {Upd(t, [tool |-> "create_payment_link", company_type |-> ct]) :
        t \in ReplyTexts(s, "create_payment_link"), ct \in CompanyTexts}

NextAmount ==
    \/ \E s \in SessionIds : WsConnect(s)
    \/ \E s \in SessionIds : WsDisconnect(s)
    \/ \E s \in SessionIds : WsEnvelope(s, [type |-> "message"])
    \/ \E s \in SessionIds : \E reply \in PaymentLinkReplies(s) : AgentReply(s, reply)
    \/ \E s \in SessionIds : AgentFails(s)

SpecAmount == Init /\ [][NextAmount]_vars

\* the payment a handler leaves as the current one of session s
PaymentsIn(c, s) ==
    IF DB_AVAILABLE
    THEN {c.U[i].current_payment : i \in {j \in find_user(c.U, [session_id |-> s]) :
                                            Has(c.U[j], "current_payment")}}
    ELSE {c.ps[t] : t \in DOMAIN c.ps \cap {s}}

\* C32: for every company type, the link generated for a create_payment_link
\* tool call has amount 6000 when the type contains llp, else 4500 when it
\* contains opc or one person, else 5000, and currency INR; and when the
\* handler of the reply is done the session's payment holds that amount and
\* that currency.
C32AmountFollowsCompanyType ==
    \A s \in DOMAIN conn : conn[s].pc = "runner" /\ clock < MaxClock =>
       \A reply \in PaymentLinkReplies(s) :
          LET ct == reply.company_type
              link == generate_razorpay_link(ct, nextPay)
          IN  /\ link.currency = "INR"
              /\ link.amount = IF \E k \in 1..Len(ct) : ct[k] \in {"LLP", "llp"} THEN 6000
                               ELSE IF \E k \in 1..Len(ct) : ct[k] \in {"OPC", "One Person"} THEN 4500
                               ELSE 5000
              /\ \A c \in process_message_reply(Ctx(conn[s]), s, reply, clock + 1) :
                    /\ PaymentsIn(c, s) # {}
                    /\ \A p \in PaymentsIn(c, s) :
                          /\ Get(p, "amount", 0) = link.amount
                          /\ Get(p, "currency", "none") = "INR"


\* ------------------------------------------------------------------ the agent of a follow-up
\* the envelopes of a client that writes messages, with no cookie or with
\* the id of a session as its cookie, and reports inactivity
StageEnvelopes ==
    {[type |-> "message"], [type |-> "inactive"]}
    \cup {[type |-> "message", cookie_id |-> SessionCookie(q)] : q \in SessionIds}

\* the replies with a plain text that report no tool call or the tool call
\* create_payment_link
StageReplies(s) ==
    {r \in Replies(s) : r.text = "plain" /\ r.tool \in {"none", "create_payment_link"}}

\* session 1 has sent a message, got a payment link by tool call, sent
\* another message and got the payment verified by tool call
EarlierPayment ==
    LET plain == [text |-> "plain", link |-> 0]
        a == HandleEnvelope(FirstContext, 1, [type |-> "message"], 0)
        b == UNION {process_message_reply(
                       c, 1, Upd(plain, [tool |-> "create_payment_link", company_type |-> <<>>]), 0) :
                       c \in a}
        f == UNION {HandleEnvelope(c, 1, [type |-> "message"], 0) : c \in b}
    IN  UNION {process_message_reply(
                  c, 1, Upd(plain, [tool |-> "verify_payment_status", has_payment_id |-> TRUE,
                                    result |-> [success |-> TRUE, status |-> "captured",
                                                payment_completed |-> TRUE]]), 0) :
                  c \in f}

InitStage ==
    /\ DB_AVAILABLE \in BOOLEAN
    /\ conn = Put(EmptyDict, 1, [pc |-> "recv"])
    /\ \E c \in EarlierPayment :
          /\ ~c.raised
          /\ users = c.U
          /\ chat_histories = c.ch
          /\ document_status = c.ds
          /\ payment_status = c.ps
          /\ thread_ids = c.ti
          /\ sent = c.sent
          /\ unresolved = c.open
          /\ nextPay = c.np
    /\ uploads = {}
    /\ clock = 0
    /\ procs = EmptyDict
    /\ last = [op |-> "init"]

NextStage ==
    \/ \E s \in SessionIds : WsConnect(s)
    \/ \E s \in SessionIds : WsDisconnect(s)
    \/ \E s \in SessionIds : \E env \in StageEnvelopes : WsEnvelope(s, env)
    \/ \E s \in SessionIds : \E reply \in StageReplies(s) : AgentReply(s, reply)
    \/ \E s \in SessionIds : AgentFails(s)
    \/ \E s \in SessionIds : FollowUpReply(s)
    \/ \E s \in SessionIds : FollowUpFails(s)

SpecStage == InitStage /\ [][NextStage]_vars

\* C33: at every receive_text, the agent handle_inactivity picks for the
\* session is the agent process_message picks for it.
C33SameAgentForFollowUp ==
    \A s \in DOMAIN conn : conn[s].pc = "recv" =>
       \A c \in StageLocals(Ctx(conn[s]), s) :
          \A a \in handle_inactivity_agent(Ctx(conn[s]), s) : a = c.loc.agent


\* C34: in memory mode no step takes a session whose payment is completed
\* back to a payment that is not completed or is pending.
C34CompletionMonotonicInMemory ==
    [][~DB_AVAILABLE =>
          \A s \in DOMAIN payment_status :
             Get(payment_status[s], "completed", FALSE) =>
                /\ s \in DOMAIN payment_status'
                /\ Get(payment_status'[s], "completed", FALSE)
                /\ ~Get(payment_status'[s], "pending", FALSE)
                /\ \A c \in StageLocals(Ctx(EmptyDict), s)' : c.loc.agent # "payment"]_vars


\* ------------------------------------------------------------------ the agent and the label of its prompt
\* app.py:514-519: the agent_type written into the prompt; the locals are the
\* ones read at app.py:381-396 and are not assigned in between
AgentType(doc_pending, payment_pending) ==
    IF doc_pending THEN "document verification"
    ELSE IF payment_pending THEN "payment" ELSE "sales"

\* the label that names the stage of an agent
LabelOf(agent) ==
    IF agent = "document_verification" THEN "document verification" ELSE agent

\* C37: while process_message awaits the agent it dispatched, the agent_type
\* label of the prompt names the stage of that agent, also when the pending
\* payment was found to be completed already.
C37AgentMatchesLabel ==
    \A s \in DOMAIN conn :
        conn[s].pc = "runner" =>
            AgentType(conn[s].doc_pending, conn[s].payment_pending) = LabelOf(conn[s].agent)


\* ------------------------------------------------------------------ the id of a pending payment
\* C38: a session's current payment record that is pending and holds a link
\* sent to the client holds the payment id the gateway issued for that link,
\* in both backends.
C38PendingPaymentHasGatewayId ==
    \A s \in SessionIds : \A p \in CurrentPayments(s) :
       (Get(p, "pending", FALSE) /\ Has(p, "link") /\ p.link \in Get(sent, s, {}))
       => (Has(p, "payment_id") /\ p.payment_id = p.link)


\* ------------------------------------------------------------------ the registry of connections
\* app.py:1113-1114, 1276-1279: receive_text returned a text that is not
\* JSON; json.loads raises before anything is read from the envelope, and
\* the handler unregisters the connection
WsBadJson(s) ==
    /\ s \in DOMAIN conn
    /\ conn[s].pc = "recv"
    /\ conn' = Drop(conn, s)
    /\ last' = [op |-> "bad_json", s |-> s]
    /\ UNCHANGED <<DB_AVAILABLE, users, chat_histories, document_status, payment_status,
                   thread_ids, uploads, clock, nextPay, sent, unresolved, procs>>

\* envelopes that are JSON objects but carry no type
UntypedEnvelopes ==
    {EmptyDict, [cookie_id |-> 1], [device_id |-> 1],
     [client_info |-> [phone |-> [num |-> 1, formatted |-> TRUE, long |-> TRUE]]]}

\* the envelopes of a client that also sends envelopes without a type, an
\* unknown type, and the id of a session as previous_session_id
RegistryEnvelopes ==
    UntypedEnvelopes
    \cup {[type |-> "message"], [type |-> "inactive"], [type |-> "identify", device_id |-> 1]}
    \cup {[type |-> "identify", previous_session_id |-> q] : q \in SessionIds}

NextRegistry ==
    \/ \E s \in SessionIds : WsConnect(s)
    \/ \E s \in SessionIds : WsDisconnect(s)
    \/ \E s \in SessionIds : WsBadJson(s)
    \/ \E s \in SessionIds : \E env \in RegistryEnvelopes : WsEnvelope(s, env)
    \/ \E s \in SessionIds : \E reply \in PlainReplies(s) : AgentReply(s, reply)
    \/ \E s \in SessionIds : AgentFails(s)
    \/ \E s \in SessionIds : FollowUpReply(s)
    \/ \E s \in SessionIds : FollowUpFails(s)

SpecRegistry == Init /\ [][NextRegistry]_vars

\* the step is one in which the handler of session s leaves its receive loop
LeavesLoop(s) ==
    /\ last'.op \in {"disconnect", "bad_json", "envelope"}
    /\ last'.s = s
    /\ last'.op = "envelope" => last'.raised

\* the user state: the collection and the in-memory stores
UserState(c) == <<c.U, c.ch, c.ds, c.ps, c.ti>>

\* C39: a registered session is inside its receive loop; a step in which the
\* handler leaves the loop (disconnect, text that is not JSON, envelope
\* without a type, exception raised while an envelope is processed) removes
\* the session from the registry; and handling an envelope without a type
\* ends the loop with the user state as it was.
C39RegistryLiveness ==
    /\ [](\A s \in DOMAIN conn :
             /\ conn[s].pc \in {"recv", "runner", "follow_up"}
             /\ conn[s].pc = "recv" =>
                   \A env \in UntypedEnvelopes :
                      \A c \in HandleEnvelope(Ctx(conn[s]), s, env, clock + 1) :
                         c.raised /\ UserState(c) = UserState(Ctx(conn[s])))
    /\ [][\A s \in SessionIds :
             /\ LeavesLoop(s) => s \notin DOMAIN conn'
             /\ (last'.op = "bad_json" /\ last'.s = s)
                => UNCHANGED <<users, chat_histories, document_status, payment_status, thread_ids>>]_vars


\* ------------------------------------------------------------------ identity: envelopes and the UserProfile API
Phones == {[num |-> 1, formatted |-> TRUE, long |-> TRUE]}

\* the envelopes a client sends: a type, and identifiers in any combination
\* of at most two
IdentityEnvelopes ==
    {Upd([type |-> "message"], e) :
        e \in {EmptyDict} \cup {[cookie_id |-> k] : k \in CookieIds}}
    \cup {Upd([type |-> "identify"], e) :
            e \in {[device_id |-> d] : d \in DeviceIds}
                  \cup {[device_id |-> d, cookie_id |-> k] : d \in DeviceIds, k \in CookieIds}
                  \cup {[previous_session_id |-> q] : q \in SessionIds}
                  \cup {[client_info |-> [phone |-> ph]] : ph \in Phones}}

Identifiers ==
    {[cookie_id |-> k] : k \in CookieIds} \cup {[device_id |-> d] : d \in DeviceIds}
    \cup {[phone |-> ph] : ph \in Phones}

Queries ==
    {Upd(Upd(Upd(a, b), c), e) :
        a \in {EmptyDict} \cup {[device_id |-> d] : d \in DeviceIds},
        b \in {EmptyDict} \cup {[cookie_id |-> k] : k \in CookieIds},
        c \in {EmptyDict} \cup {[session_id |-> q] : q \in SessionIds},
        e \in {EmptyDict} \cup {[phone |-> ph] : ph \in Phones}}

\* the lengths of the conversations of the documents a call deleted
Folded(U, V) == {Len(U[i].conversation) : i \in Live(U) \ Live(V)}

\* a call of UserProfile.set_user_identifier(session_id, identifier)
SetUserIdentifier(s, identifier) ==
    /\ DB_AVAILABLE
    /\ \E o \in set_user_identifier(users, s, identifier, clock + 1) :
          /\ users' = o.U
          /\ clock' = IF o.U # users THEN clock + 1 ELSE clock
          /\ last' = [op |-> "set_user_identifier", s |-> s, folded |-> Folded(users, o.U)]
    /\ clock' <= MaxIdentityClock
    /\ UNCHANGED <<DB_AVAILABLE, chat_histories, document_status, payment_status, thread_ids,
                   conn, uploads, nextPay, sent, unresolved, procs>>

\* a call of UserProfile.merge_users(from_user_id, to_user_id, session_id)
\* with two different ids, as set_user_identifier calls it (models.py:422);
\* the ids may be those of deleted documents
MergeUsers(from_user_id, to_user_id) ==
    /\ DB_AVAILABLE
    /\ from_user_id # to_user_id
    /\ users' = merge_users(users, from_user_id, to_user_id).U
    /\ clock' = IF users' # users THEN clock + 1 ELSE clock
    /\ clock' <= MaxIdentityClock
    /\ last' = [op |-> "merge_users", folded |-> Folded(users, users')]
    /\ UNCHANGED <<DB_AVAILABLE, chat_histories, document_status, payment_status, thread_ids,
                   conn, uploads, nextPay, sent, unresolved, procs>>

\* a call of UserProfile.find_user(user_identifier) and what it returned
FindUser(ident) ==
    /\ DB_AVAILABLE
    /\ \E id \in Found(users, ident) :
          last' = [op |-> "find_user", id |-> id]
    /\ UNCHANGED <<DB_AVAILABLE, users, chat_histories, document_status, payment_status,
                   thread_ids, conn, uploads, clock, nextPay, sent, unresolved, procs>>

InitIdentity ==
    /\ Init
    /\ DB_AVAILABLE

NextIdentity ==
    \/ \E s \in SessionIds : WsConnect(s)
    \/ \E s \in SessionIds : WsDisconnect(s)
    \/ \E s \in SessionIds : \E env \in IdentityEnvelopes :
          clock < MaxIdentityClock /\ WsEnvelope(s, env)
    \/ \E s \in SessionIds : AgentFails(s)
    \/ \E s \in SessionIds : \E identifier \in Identifiers : SetUserIdentifier(s, identifier)
    \/ \E from_user_id \in 1..Len(users) : \E to_user_id \in 1..Len(users) :
          MergeUsers(from_user_id, to_user_id)
    \/ \E ident \in Queries : FindUser(ident)

SpecIdentity == InitIdentity /\ [][NextIdentity]_vars


\* ------------------------------------------------------------------ properties of identity resolution
Count(seq, m) == Cardinality({k \in 1..Len(seq) : seq[k] = m})

Range(seq) == {seq[k] : k \in 1..Len(seq)}

\* C4: for any two different user ids, a second merge_users(A, B) right
\* after the first leaves the collection as the first left it, and when the
\* first merged, B's conversation has as many messages as the conversations
\* of A and B had together, each message as often as the two held it.
C4MergeIdempotent ==
    \A a \in 1..Len(users) : \A b \in 1..Len(users) \ {a} :
        LET once == merge_users(users, a, b)
            twice == merge_users(once.U, a, b)
        IN  /\ twice.U = once.U
            /\ once.id # NoUser =>
                  /\ a \notin Live(once.U)
                  /\ Len(once.U[b].conversation)
                        = Len(users[a].conversation) + Len(users[b].conversation)
                  /\ \A m \in Range(users[a].conversation) \cup Range(users[b].conversation) :
                        Count(once.U[b].conversation, m)
                           = Count(users[a].conversation, m) + Count(users[b].conversation, m)

\* merge_users has folded a record with a non-empty conversation into a
\* record that had messages of its own
C4Witness ==
    /\ last.op = "merge_users"
    /\ \E n \in last.folded :
          /\ n > 0
          /\ \E j \in Live(users) : Len(users[j].conversation) > n

\* C5 as the specification states it: whenever set_user_identifier folds
\* one record into another, the survivor had the longer conversation, or
\* one as long and was not created later.
C5SurvivorHasMoreHistory ==
    \A s \in SessionIds : \A identifier \in Identifiers :
        \A o \in set_user_identifier(users, s, identifier, clock + 1) :
            \A i \in Live(users) \ Live(o.U) : \A j \in Live(o.U) :
                users[i].sessions \subseteq o.U[j].sessions =>
                    \/ Len(users[j].conversation) > Len(users[i].conversation)
                    \/ /\ Len(users[j].conversation) = Len(users[i].conversation)
                       /\ users[j].created_at <= users[i].created_at

\* C5, amended: whenever set_user_identifier deletes a record, that record
\* held the session, and a record that held the identifier before the call
\* (by device id, phone or cookie id) survives with the sessions and the messages
\* of both, whatever their lengths and creation times.
C5SurvivorHoldsIdentifier ==
    \A s \in SessionIds : \A identifier \in Identifiers :
        \A o \in set_user_identifier(users, s, identifier, clock + 1) :
            \A i \in Live(users) \ Live(o.U) :
                /\ s \in users[i].sessions
                /\ \E j \in Live(o.U) \cap Live(users) :
                      /\ j \in ExistingByIdentifier(users, identifier)
                      /\ users[i].sessions \cup users[j].sessions \subseteq o.U[j].sessions
                      /\ Len(o.U[j].conversation)
                            = Len(users[i].conversation) + Len(users[j].conversation)

\* set_user_identifier has deleted a record whose conversation was longer
\* than the one of the record that survives
C5Witness ==
    /\ last.op = "set_user_identifier"
    /\ \E n \in last.folded : \E j \in Live(users) :
          /\ last.s \in users[j].sessions
          /\ Len(users[j].conversation) - n < n


\* the cookie id the device branch of websocket_endpoint puts into the
\* identifiers: the envelope's, else the connection's, else a generated one
CookieUsed(s, env) ==
    IF Has(env, "cookie_id") THEN env.cookie_id
    ELSE Get(conn[s], "cookie_id", GeneratedCookie(s))

\* C7: when a connection whose session id no record holds receives an
\* envelope with a device id that a record X holds, and the cookie id sent
\* along matches no other record, handling the envelope inserts and deletes
\* no record, adds the session id to X and leaves every other record as it
\* was.
C7DeviceResolvesToHolder ==
    \A s \in DOMAIN conn : \A env \in IdentityEnvelopes :
        LET X == {i \in Live(users) : MatchesDevice(users[i], env)}
        IN  (/\ conn[s].pc = "recv"
             /\ Has(env, "device_id")
             /\ X # {}
             /\ \A i \in Live(users) \ X :
                   /\ s \notin users[i].sessions
                   /\ ~MatchesCookie(users[i], [cookie_id |-> CookieUsed(s, env)]))
            => \A c \in HandleEnvelope(Ctx(conn[s]), s, env, clock + 1) :
                  /\ Len(c.U) = Len(users)
                  /\ Live(c.U) = Live(users)
                  /\ \E x \in X : s \in c.U[x].sessions
                  /\ \A i \in Live(users) \ X : c.U[i] = users[i]

\* an envelope with a device id was handled, and the session is now held by
\* the one record of the collection, which holds the device id and an
\* earlier session
C7Witness ==
    /\ last.op = "envelope"
    /\ last.device
    /\ Cardinality(Live(users)) = 1
    /\ Len(users) = 1
    /\ Has(users[1], "device_id")
    /\ last.s \in users[1].sessions
    /\ Cardinality(users[1].sessions) = 2

\* C8: what find_user returns is matched by the identifier of the highest
\* priority that matches any record: by the device id if a record holds it,
\* else by the cookie id, else by the phone, else by the session id.
C8FindUserPriority ==
    \A ident \in Queries : \A id \in find_user(users, ident) :
        LET byDevice == {i \in Live(users) : MatchesDevice(users[i], ident)}
            byCookie == {i \in Live(users) : MatchesCookie(users[i], ident)}
            byPhone == {i \in Live(users) : MatchesPhone(users[i], ident)}
        IN  IF byDevice # {} THEN id \in byDevice
            ELSE IF byCookie # {} THEN id \in byCookie
            ELSE IF byPhone # {} THEN id \in byPhone
            ELSE MatchesSession(users[id], ident)

\* C10: no two records of the collection hold the same device id, the same
\* cookie id or the same session id.
C10OneRecordPerIdentifier ==
    \A i \in Live(users) : \A j \in Live(users) \ {i} :
        /\ ~(Has(users[i], "device_id") /\ Has(users[j], "device_id")
                /\ users[i].device_id = users[j].device_id)
        /\ ~(Has(users[i], "cookie_id") /\ Has(users[j], "cookie_id")
                /\ users[i].cookie_id = users[j].cookie_id)
        /\ users[i].sessions \cap users[j].sessions = {}


C11IdentifierAttached ==
    \A s \in SessionIds : \A identifier \in Identifiers :
        find_user(users, [session_id |-> s]) # {} =>
            \A o \in set_user_identifier(users, s, identifier, clock + 1) :
                /\ Len(o.U) = Len(users)
                /\ Cardinality({i \in Live(o.U) :
                                   /\ s \in o.U[i].sessions
                                   /\ \/ MatchesDevice(o.U[i], identifier)
                                      \/ MatchesCookie(o.U[i], identifier)
                                      \/ MatchesPhone(o.U[i], identifier)}) = 1


\* C36: whenever create_or_update_user(identifiers, data) returns a user,
\* find_user called with any single one of the identifiers returns that
\* user and no other.
C36IdentifierRoundTrip ==
    \A ident \in Queries \ {EmptyDict} :
       \A data \in {EmptyDict, Restrict(ident, {"phone"})} :
          \A o \in create_or_update_user(users, ident, data, clock + 1) :
             (o.id # NoUser /\ ~o.raised) =>
                \A k \in DOMAIN ident : find_user(o.U, Restrict(ident, {k})) = {o.id}


\* ------------------------------------------------------------------ a returning visitor
\* The collection after an earlier visit from device 1: session 1 was
\* resolved by its device id (app.py:1128-1161), a payment link was issued
\* (app.py:682-684) and GET /check-payment found the payment captured
\* (app.py:1816-1831).  The visitor has disconnected.
ReturningVisitor ==
    LET a == (CHOOSE o \in create_or_update_user(
                               <<>>, [session_id |-> 1, device_id |-> 1, cookie_id |-> GeneratedCookie(1)],
                               EmptyDict, 0) : TRUE).U
        b == (CHOOSE o \in update_payment_info(
                               a, 1, [pending |-> TRUE, payment_id |-> 1, link |-> 1,
                                      amount |-> 5000, currency |-> "INR"], 1) : TRUE).U
        c == (CHOOSE o \in mark_case_outcome(b, 1, TRUE) : TRUE).U
    IN  (CHOOSE o \in update_payment_info(
                          c, 1, EndpointPaymentUpdate(1, [success |-> TRUE, status |-> "captured",
                                                          payment_completed |-> TRUE]), 1) : TRUE).U

\* the envelopes of the visitor's client: the device id on its own, a
\* message, or both in one envelope
ReturningEnvelopes ==
    {[type |-> "identify", device_id |-> 1], [type |-> "message"],
     [type |-> "message", device_id |-> 1]}

InitReturning ==
    /\ DB_AVAILABLE = TRUE
    /\ users = ReturningVisitor
    /\ chat_histories = EmptyDict
    /\ document_status = EmptyDict
    /\ payment_status = EmptyDict
    /\ thread_ids = EmptyDict
    /\ conn = EmptyDict
    /\ uploads = {}
    /\ clock = 0
    /\ nextPay = 1
    /\ sent = Put(EmptyDict, 1, {1})
    /\ unresolved = Put(EmptyDict, 1, {})
    /\ procs = EmptyDict
    /\ last = [op |-> "init"]

NextReturning ==
    \/ \E s \in SessionIds : WsConnect(s)
    \/ \E s \in SessionIds : WsDisconnect(s)
    \/ \E s \in SessionIds : \E env \in ReturningEnvelopes : WsEnvelope(s, env)
    \/ \E s \in SessionIds : \E reply \in Replies(s) : AgentReply(s, reply)
    \/ \E s \in SessionIds : AgentFails(s)

SpecReturning == InitReturning /\ [][NextReturning]_vars

\* the number of pending records in the payment histories of the documents
\* holding session s
PendingRecords(s) ==
    {Cardinality({k \in 1..Len(Get(users[i], "payment_history", <<>>)) :
                     users[i].payment_history[k].status = "pending"})
        : i \in find_user(users, [session_id |-> s])}

\* C16: for a session resolved by its device id to a user whose payment is
\* completed, the agent selected for a message is not the payment agent, and
\* handling the agent's reply sends no payment_link frame and adds no
\* pending record to the payment history.
C16ReturningPaidNoNewLink ==
    [][\A s \in DOMAIN conn :
          (/\ conn[s].pc = "runner"
           /\ Has(conn[s], "device_id")
           /\ \E i \in find_user(users, [session_id |-> s]) :
                 Has(users[i], "device_id") /\ DocHasCompletedPayment(users[i]))
          => /\ conn[s].agent # "payment"
             /\ (last'.op = "reply" /\ last'.s = s)
                   => /\ Get(sent', s, {}) = Get(sent, s, {})
                      /\ PendingRecords(s)' = PendingRecords(s)]_vars


\* ------------------------------------------------------------------ contact details
\* the phone numbers the patterns of app.py:832-836 extract from a text
ExtractedPhones == {[num |-> 2, formatted |-> FALSE, long |-> TRUE]}

\* the envelopes of a client that supplies a phone in client_info and writes
\* messages, some of which hold a phone number
ContactEnvelopes ==
    {[type |-> "identify", client_info |-> [phone |-> ph]] : ph \in Phones}
    \cup {[type |-> "message"]}
    \cup {[type |-> "message", text |-> [phone |-> ph]] : ph \in ExtractedPhones}

InitContact ==
    /\ Init
    /\ DB_AVAILABLE

NextContact ==
    \/ \E s \in SessionIds : WsConnect(s)
    \/ \E s \in SessionIds : WsDisconnect(s)
    \/ \E s \in SessionIds : \E env \in ContactEnvelopes : WsEnvelope(s, env)
    \/ \E s \in SessionIds : \E reply \in Replies(s) : AgentReply(s, reply)
    \/ \E s \in SessionIds : AgentFails(s)

SpecContact == InitContact /\ [][NextContact]_vars

\* C19: handling the agent's reply to a message never changes a phone that
\* was stored from client_info (a stored phone is either one of client_info
\* or one the patterns extracted from a message).
C19ExtractionKeepsClientInfo ==
    [][last'.op = "reply" =>
          \A i \in Live(users) :
              (Has(users[i], "phone") /\ users[i].phone \notin ExtractedPhones)
              => users'[i].phone = users[i].phone]_vars


\* ------------------------------------------------------------------ payments and merge_users
MaxHistory == 3

\* the dicts app.py hands to update_payment_info: a generated link
\* (app.py:673-684, 1452-1460), a link found in a reply (app.py:778-780), the
\* result of a tool call verify_payment_status (app.py:719-734) and the
\* result of GET /check-payment (app.py:1817-1835)
PaymentInfos ==
    {[pending |-> TRUE, payment_id |-> nextPay + 1, link |-> nextPay + 1,
      amount |-> 5000, currency |-> "INR"],
     [pending |-> TRUE, link |-> 0]}
    \cup {PaymentUpdate(result) : result \in {r \in PaymentResults : r.success}}
    \cup {EndpointPaymentUpdate(payment_id, result) :
            payment_id \in 1..nextPay, result \in {r \in PaymentResults : r.success}}

\* models.py:262-313 called for session s
UpdatePaymentInfo(s, payment_info) ==
    /\ DB_AVAILABLE
    /\ nextPay < MaxPay
    /\ \E o \in update_payment_info(users, s, payment_info, nextPay + 1) :
          /\ o.id # NoUser
          /\ Len(Get(users[o.id], "payment_history", <<>>)) < MaxHistory
          /\ users' = o.U
          /\ last' = [op |-> "update_payment_info", s |-> s]
    /\ nextPay' = nextPay + 1
    /\ UNCHANGED <<DB_AVAILABLE, chat_histories, document_status, payment_status, thread_ids,
                   conn, uploads, clock, sent, unresolved, procs>>

\* two visitors, each with a record of its own
TwoUsers ==
    LET a == (CHOOSE o \in create_or_update_user(<<>>, [session_id |-> 1], EmptyDict, 0) : TRUE).U
    IN  (CHOOSE o \in create_or_update_user(a, [session_id |-> 2], EmptyDict, 0) : TRUE).U

InitMerge ==
    /\ DB_AVAILABLE = TRUE
    /\ users = TwoUsers
    /\ chat_histories = EmptyDict
    /\ document_status = EmptyDict
    /\ payment_status = EmptyDict
    /\ thread_ids = EmptyDict
    /\ conn = EmptyDict
    /\ uploads = {}
    /\ clock = 0
    /\ nextPay = 0
    /\ sent = EmptyDict
    /\ unresolved = EmptyDict
    /\ procs = EmptyDict
    /\ last = [op |-> "init"]

NextMerge ==
    \/ \E s \in SessionIds : \E payment_info \in PaymentInfos : UpdatePaymentInfo(s, payment_info)
    \/ \E from_user_id \in 1..Len(users) : \E to_user_id \in 1..Len(users) :
          MergeUsers(from_user_id, to_user_id)

SpecMerge == InitMerge /\ [][NextMerge]_vars

\* C35: for every two records, if has_completed_payment holds of one of
\* them it holds of the surviving record after merge_users.
C35MergeKeepsCompletion ==
    \A from_user_id \in Live(users) : \A to_user_id \in Live(users) \ {from_user_id} :
       (DocHasCompletedPayment(users[from_user_id]) \/ DocHasCompletedPayment(users[to_user_id]))
       => DocHasCompletedPayment(merge_users(users, from_user_id, to_user_id).U[to_user_id])


\* ------------------------------------------------------------------ concurrent callers of the UserProfile methods
\* UserProfile takes no lock and opens no transaction: a method is a
\* sequence of calls to the collection (find_one, update_one, insert_one,
\* delete_one), each atomic in MongoDB, and the calls of concurrent callers
\* interleave.  procs[p] is the call of caller p: its arguments, the
\* position pc and what it has read.  A caller makes one call.
None == [none |-> TRUE]

\* collection.find_one({"_id": id})
FindById(U, id) == IF id \in Live(U) THEN U[id] ELSE None

\* the collection before the callers start: empty, or two visitors with a
\* message each, the first with a payment link issued
TwoVisitors ==
    LET a == (CHOOSE o \in add_message_to_conversation(<<>>, 1, Message("user", 1), 1) : TRUE).U
        b == (CHOOSE o \in update_payment_info(a, 1, [pending |-> TRUE, link |-> 1, payment_id |-> 1], 1)
                 : TRUE).U
    IN  (CHOOSE o \in add_message_to_conversation(b, 2, Message("user", 2), 2) : TRUE).U

Calls ==
    {[op |-> "merge_users", from |-> ab[1], to |-> ab[2], pc |-> "read_from"] :
        ab \in {<<1, 2>>, <<2, 1>>}}
    \cup {[op |-> "add_message_to_conversation", s |-> q, pc |-> "find"] : q \in SessionIds}
    \cup {[op |-> "create_or_update_user", ident |-> [cookie_id |-> k, session_id |-> q],
           data |-> EmptyDict, pc |-> "find"] : k \in CookieIds, q \in SessionIds}

Step(p, call) ==
    /\ procs' = Put(procs, p, call)
    /\ last' = [op |-> call.op, p |-> p]
    /\ UNCHANGED <<DB_AVAILABLE, chat_histories, document_status, payment_status, thread_ids,
                   conn, uploads, nextPay, sent, unresolved>>

Write(U) ==
    /\ users' = U
    /\ clock' = clock + 1

At(p, op, pc) == p \in DOMAIN procs /\ procs[p].op = op /\ procs[p].pc = pc

Call(p, call) ==
    /\ p \notin DOMAIN procs
    /\ Step(p, call)
    /\ UNCHANGED <<users, clock>>

\* models.py:468
MergeReadFrom(p) ==
    /\ At(p, "merge_users", "read_from")
    /\ Step(p, Upd(procs[p], [from_user |-> FindById(users, procs[p].from), pc |-> "read_to"]))
    /\ UNCHANGED <<users, clock>>

\* models.py:469-473
MergeReadTo(p) ==
    /\ At(p, "merge_users", "read_to")
    /\ LET to_user == FindById(users, procs[p].to)
       IN  Step(p, Upd(procs[p],
                       [to_user |-> to_user,
                        pc |-> IF procs[p].from_user = None \/ to_user = None
                               THEN "done" ELSE "update",
                        result |-> FALSE]))
    /\ UNCHANGED <<users, clock>>

\* models.py:475-516: update_one on the target with what was computed from
\* the two documents read; it modifies nothing when the target is gone
MergeUpdate(p) ==
    /\ At(p, "merge_users", "update")
    /\ LET to == procs[p].to
           current_payment == MergedCurrentPayment(procs[p].from_user, procs[p].to_user)
       IN  /\ Write(IF to \in Live(users)
                    THEN [users EXCEPT ![to] =
                             Upd(@, MergedFields(procs[p].from_user, procs[p].to_user))]
                    ELSE users)
           /\ Step(p, Upd(procs[p],
                          [pc |-> IF current_payment = EmptyDict THEN "delete"
                                  ELSE "update_payment",
                           result |-> to \in Live(users)]))

\* models.py:518-522
MergeUpdatePayment(p) ==
    /\ At(p, "merge_users", "update_payment")
    /\ LET to == procs[p].to
       IN  Write(IF to \in Live(users)
                 THEN [users EXCEPT ![to] =
                          Upd(@, MergedCurrentPayment(procs[p].from_user, procs[p].to_user))]
                 ELSE users)
    /\ Step(p, Upd(procs[p], [pc |-> "delete"]))

\* models.py:524-529
MergeDelete(p) ==
    /\ At(p, "merge_users", "delete")
    /\ LET from == procs[p].from
       IN  Write(IF from \in Live(users) THEN [users EXCEPT ![from] = Tomb] ELSE users)
    /\ Step(p, Upd(procs[p], [pc |-> "done"]))

\* models.py:165: find_user({"session_id": session_id})
AddMessageFind(p) ==
    /\ At(p, "add_message_to_conversation", "find")
    /\ \E id \in get_by_session(users, procs[p].s) :
          Step(p, Upd(procs[p], [user |-> id, pc |-> "write"]))
    /\ UNCHANGED <<users, clock>>

\* models.py:167-199: update_one with $push on the document found, or
\* insert_one of a temporary user; the result is whether a document was
\* modified or inserted
AddMessageWrite(p) ==
    /\ At(p, "add_message_to_conversation", "write")
    /\ LET id == procs[p].user
           message == Message("user", clock + 1)
       IN  /\ id = NoUser => Len(users) < MaxUsers
           /\ Write(IF id = NoUser
                    THEN Append(users, TemporaryUserDoc(procs[p].s, message, clock + 1))
                    ELSE IF id \in Live(users)
                    THEN [users EXCEPT ![id] =
                             Upd(@, [conversation |-> Append(@.conversation, message)])]
                    ELSE users)
           /\ Step(p, Upd(procs[p], [pc |-> "done", message |-> message,
                                     result |-> id = NoUser \/ id \in Live(users)]))

\* models.py:84: find_user(identifier)
CreateFind(p) ==
    /\ At(p, "create_or_update_user", "find")
    /\ \E id \in Found(users, procs[p].ident) :
          Step(p, Upd(procs[p], [existing_user |-> id, pc |-> "write"]))
    /\ UNCHANGED <<users, clock>>

\* models.py:89-148: update_one on the document found, or insert_one
CreateWrite(p) ==
    /\ At(p, "create_or_update_user", "write")
    /\ LET id == procs[p].existing_user
       IN  /\ id = NoUser => Len(users) < MaxUsers
           /\ Write(IF id = NoUser
                    THEN Append(users, NewUserDoc(procs[p].ident, procs[p].data, clock + 1))
                    ELSE IF id \in Live(users)
                    THEN UpdateExisting(users, id, procs[p].ident, procs[p].data).U
                    ELSE users)
    /\ Step(p, Upd(procs[p], [pc |-> "done"]))

InitConcurrent ==
    /\ DB_AVAILABLE = TRUE
    /\ users \in {<<>>, TwoVisitors}
    /\ clock = Len(users)
    /\ chat_histories = EmptyDict
    /\ document_status = EmptyDict
    /\ payment_status = EmptyDict
    /\ thread_ids = EmptyDict
    /\ conn = EmptyDict
    /\ uploads = {}
    /\ nextPay = 0
    /\ sent = EmptyDict
    /\ unresolved = EmptyDict
    /\ procs = EmptyDict
    /\ last = [op |-> "init"]

NextConcurrent ==
    \/ \E p \in 1..NumProcs : \E call \in Calls : Call(p, call)
    \/ \E p \in 1..NumProcs : MergeReadFrom(p)
    \/ \E p \in 1..NumProcs : MergeReadTo(p)
    \/ \E p \in 1..NumProcs : MergeUpdate(p)
    \/ \E p \in 1..NumProcs : MergeUpdatePayment(p)
    \/ \E p \in 1..NumProcs : MergeDelete(p)
    \/ \E p \in 1..NumProcs : AddMessageFind(p)
    \/ \E p \in 1..NumProcs : AddMessageWrite(p)
    \/ \E p \in 1..NumProcs : CreateFind(p)
    \/ \E p \in 1..NumProcs : CreateWrite(p)

SpecConcurrent == InitConcurrent /\ [][NextConcurrent]_vars


\* ------------------------------------------------------------------ properties of concurrent calls
Quiescent == \A p \in DOMAIN procs : procs[p].pc = "done"

\* the messages the two visitors' records held at the start and those a
\* caller pushed onto one of the two records with success
AppendedToPair ==
    UNION {Range(TwoVisitors[i].conversation) : i \in 1..Len(TwoVisitors)}
    \cup {procs[p].message :
            p \in {q \in DOMAIN procs : /\ procs[q].op = "add_message_to_conversation"
                                        /\ procs[q].pc = "done"
                                        /\ procs[q].user \in 1..Len(TwoVisitors)
                                        /\ procs[q].result}}

\* C6: once merge_users calls on the two visitors' records and
\* add_message_to_conversation calls have all returned, and a merge found
\* both records, exactly one of the two records is left and its
\* conversation holds every message appended to either.
C6ConcurrentMergeSafe ==
    (/\ Quiescent
     /\ \A p \in DOMAIN procs : procs[p].op # "create_or_update_user"
     /\ \E p \in DOMAIN procs : /\ procs[p].op = "merge_users"
                                /\ procs[p].from_user # None
                                /\ procs[p].to_user # None)
    => /\ Cardinality(Live(users) \cap (1..Len(TwoVisitors))) = 1
       /\ \A m \in AppendedToPair :
             \E i \in Live(users) \cap (1..Len(TwoVisitors)) : m \in Range(users[i].conversation)

\* C9: once create_or_update_user and add_message_to_conversation calls
\* have all returned, no cookie id and no session id is held by two records.
C9AtomicFindOrCreate ==
    (/\ Quiescent
     /\ \A p \in DOMAIN procs : procs[p].op # "merge_users")
    => \A i \in Live(users) : \A j \in Live(users) \ {i} :
          /\ ~(MatchesCookie(users[i], users[j]))
          /\ users[i].sessions \cap users[j].sessions = {}


====
